---------------------------- MODULE Spec2Model ----------------------------
(***************************************************************************)
(* A model of lib/ofp-util.c (Open vSwitch OpenFlow codec): message type   *)
(* recognition, protocol (dialect) negotiation, usable-protocol            *)
(* resolution, match conversion and rule normalization.                    *)
(*                                                                         *)
(* Each component has its own specification (SpecMsgType, SpecProto, ...); *)
(* the variables of the other components stay at their idle value.         *)
(***************************************************************************)
EXTENDS Integers, Sequences, FiniteSets, TLC

VARIABLES
    oh,      \* message type: the received message (header + type fields)
    full,    \* message type: outcome of ofputil_decode_msg_type, or NotCalled
    part,    \* message type: outcome of ofputil_decode_msg_type_partial
    neg,     \* protocol negotiation: the connection's protocol and the last call
    up,      \* usable protocols: the last ofputil_usable_protocols call
    fmu,     \* usable protocols: the run of ofputil_flow_mod_usable_protocols
    nr,      \* normalization: a rule and the calls of ofputil_normalize_rule on it
    mc,      \* match conversion: a wire match, decoded, encoded and decoded again
    wb,      \* wildcard bit counts: a count, its netmask, and the count of that netmask
    fsr,     \* flow stats reply: the message buffer and the calls of the decoder on it
    srp,     \* stats replies: the list of reply messages and the records appended
    sf,      \* switch features: the features reply buffer and the ports put in it
    dec,     \* decoding: a message from the wire and what a decoder made of it
    xid,     \* transaction ids: the counter of alloc_xid and the threads that call it
    enc,     \* encoding: what is encoded and the buffer an encoder returned
    pt,      \* port numbers: a port number and its conversions
    pull,    \* the pull of an OpenFlow 1.1/1.2 match off a buffer
    pki,     \* a packet-in encoded and decoded again
    fmr,     \* a flow mod encoded and decoded again
    pko,     \* a packet-out encoded and decoded again
    pd,      \* a port description encoded and decoded again
    pmr      \* a port mod encoded and decoded again

vars == <<oh, full, part, neg, up, fmu, nr, mc, wb, fsr, srp, sf, dec, xid, enc, pt, pull, pki, fmr, pko, pd, pmr>>

\* The variables of each component, and those of all the others.
msgTypeVars == <<oh, full, part>>
protoVars == <<neg>>
usableVars == <<up, fmu>>
normalizeVars == <<nr>>
matchVars == <<mc>>
wcbitsVars == <<wb>>
flowStatsVars == <<fsr>>
statsReplyVars == <<srp>>
featuresVars == <<sf>>
decodeVars == <<dec>>
xidVars == <<xid>>
encodeVars == <<enc>>
portVars == <<pt>>
pullVars == <<pull>>
packetInVars == <<pki>>
flowModVars == <<fmr>>
packetOutVars == <<pko>>
portDescVars == <<pd>>
portModVars == <<pmr>>
notMsgTypeVars == <<protoVars, usableVars, normalizeVars, matchVars, wcbitsVars, flowStatsVars, statsReplyVars, featuresVars, decodeVars, xidVars, encodeVars, portVars, pullVars, packetInVars, flowModVars, packetOutVars, portDescVars, portModVars>>
notProtoVars == <<msgTypeVars, usableVars, normalizeVars, matchVars, wcbitsVars, flowStatsVars, statsReplyVars, featuresVars, decodeVars, xidVars, encodeVars, portVars, pullVars, packetInVars, flowModVars, packetOutVars, portDescVars, portModVars>>
notUsableVars == <<msgTypeVars, protoVars, normalizeVars, matchVars, wcbitsVars, flowStatsVars, statsReplyVars, featuresVars, decodeVars, xidVars, encodeVars, portVars, pullVars, packetInVars, flowModVars, packetOutVars, portDescVars, portModVars>>
notNormalizeVars == <<msgTypeVars, protoVars, usableVars, matchVars, wcbitsVars, flowStatsVars, statsReplyVars, featuresVars, decodeVars, xidVars, encodeVars, portVars, pullVars, packetInVars, flowModVars, packetOutVars, portDescVars, portModVars>>
notMatchVars == <<msgTypeVars, protoVars, usableVars, normalizeVars, wcbitsVars, flowStatsVars, statsReplyVars, featuresVars, decodeVars, xidVars, encodeVars, portVars, pullVars, packetInVars, flowModVars, packetOutVars, portDescVars, portModVars>>
notWcbitsVars == <<msgTypeVars, protoVars, usableVars, normalizeVars, matchVars, flowStatsVars, statsReplyVars, featuresVars, decodeVars, xidVars, encodeVars, portVars, pullVars, packetInVars, flowModVars, packetOutVars, portDescVars, portModVars>>
notFlowStatsVars == <<msgTypeVars, protoVars, usableVars, normalizeVars, matchVars, wcbitsVars, statsReplyVars, featuresVars, decodeVars, xidVars, encodeVars, portVars, pullVars, packetInVars, flowModVars, packetOutVars, portDescVars, portModVars>>
notStatsReplyVars == <<msgTypeVars, protoVars, usableVars, normalizeVars, matchVars, wcbitsVars, flowStatsVars, featuresVars, decodeVars, xidVars, encodeVars, portVars, pullVars, packetInVars, flowModVars, packetOutVars, portDescVars, portModVars>>
notFeaturesVars == <<msgTypeVars, protoVars, usableVars, normalizeVars, matchVars, wcbitsVars, flowStatsVars, statsReplyVars, decodeVars, xidVars, encodeVars, portVars, pullVars, packetInVars, flowModVars, packetOutVars, portDescVars, portModVars>>
notDecodeVars == <<msgTypeVars, protoVars, usableVars, normalizeVars, matchVars, wcbitsVars, flowStatsVars, statsReplyVars, featuresVars, xidVars, encodeVars, portVars, pullVars, packetInVars, flowModVars, packetOutVars, portDescVars, portModVars>>
notXidVars == <<msgTypeVars, protoVars, usableVars, normalizeVars, matchVars, wcbitsVars, flowStatsVars, statsReplyVars, featuresVars, decodeVars, encodeVars, portVars, pullVars, packetInVars, flowModVars, packetOutVars, portDescVars, portModVars>>
notEncodeVars == <<msgTypeVars, protoVars, usableVars, normalizeVars, matchVars, wcbitsVars, flowStatsVars, statsReplyVars, featuresVars, decodeVars, xidVars, portVars, pullVars, packetInVars, flowModVars, packetOutVars, portDescVars, portModVars>>
notPortVars == <<msgTypeVars, protoVars, usableVars, normalizeVars, matchVars, wcbitsVars, flowStatsVars, statsReplyVars, featuresVars, decodeVars, xidVars, encodeVars, pullVars, packetInVars, flowModVars, packetOutVars, portDescVars, portModVars>>
notPullVars == <<msgTypeVars, protoVars, usableVars, normalizeVars, matchVars, wcbitsVars, flowStatsVars, statsReplyVars, featuresVars, decodeVars, xidVars, encodeVars, portVars, packetInVars, flowModVars, packetOutVars, portDescVars, portModVars>>
notPacketInVars == <<msgTypeVars, protoVars, usableVars, normalizeVars, matchVars, wcbitsVars, flowStatsVars, statsReplyVars, featuresVars, decodeVars, xidVars, encodeVars, portVars, pullVars, flowModVars, packetOutVars, portDescVars, portModVars>>
notFlowModVars == <<msgTypeVars, protoVars, usableVars, normalizeVars, matchVars, wcbitsVars, flowStatsVars, statsReplyVars, featuresVars, decodeVars, xidVars, encodeVars, portVars, pullVars, packetInVars, packetOutVars, portDescVars, portModVars>>
notPacketOutVars == <<msgTypeVars, protoVars, usableVars, normalizeVars, matchVars, wcbitsVars, flowStatsVars, statsReplyVars, featuresVars, decodeVars, xidVars, encodeVars, portVars, pullVars, packetInVars, flowModVars, portDescVars, portModVars>>
notPortDescVars == <<msgTypeVars, protoVars, usableVars, normalizeVars, matchVars, wcbitsVars, flowStatsVars, statsReplyVars, featuresVars, decodeVars, xidVars, encodeVars, portVars, pullVars, packetInVars, flowModVars, packetOutVars, portModVars>>
notPortModVars == <<msgTypeVars, protoVars, usableVars, normalizeVars, matchVars, wcbitsVars, flowStatsVars, statsReplyVars, featuresVars, decodeVars, xidVars, encodeVars, portVars, pullVars, packetInVars, flowModVars, packetOutVars, portDescVars>>

NotCalled == [called |-> FALSE]
\* The value of a component's variables while another component is checked.
Idle == [idle |-> TRUE]

(***************************************************************************)
(*                      MESSAGE TYPE REGISTRY                              *)
(***************************************************************************)

\* Wire constants of the OpenFlow / Nicira headers (include/openflow/*.h,
\* which ofp-util.c includes).
OFP_VERSION == [OFP10 |-> 1, OFP11 |-> 2, OFP12 |-> 3]

OFPT ==
    [HELLO |-> 0, ERROR |-> 1, ECHO_REQUEST |-> 2, ECHO_REPLY |-> 3,
     VENDOR |-> 4, FEATURES_REQUEST |-> 5, FEATURES_REPLY |-> 6,
     GET_CONFIG_REQUEST |-> 7, GET_CONFIG_REPLY |-> 8, SET_CONFIG |-> 9,
     PACKET_IN |-> 10, FLOW_REMOVED |-> 11, PORT_STATUS |-> 12]

OFPT10 ==
    [PACKET_OUT |-> 13, FLOW_MOD |-> 14, PORT_MOD |-> 15,
     STATS_REQUEST |-> 16, STATS_REPLY |-> 17,
     BARRIER_REQUEST |-> 18, BARRIER_REPLY |-> 19]

OFPT11 ==
    [PACKET_OUT |-> 13, FLOW_MOD |-> 14, GROUP_MOD |-> 15, PORT_MOD |-> 16,
     TABLE_MOD |-> 17, STATS_REQUEST |-> 18, STATS_REPLY |-> 19,
     BARRIER_REQUEST |-> 20, BARRIER_REPLY |-> 21]

OFPST ==
    [DESC |-> 0, FLOW |-> 1, AGGREGATE |-> 2, TABLE |-> 3, PORT |-> 4,
     QUEUE |-> 5, PORT_DESC |-> 13, VENDOR |-> 65535]

NXT ==
    [ROLE_REQUEST |-> 10, ROLE_REPLY |-> 11, SET_FLOW_FORMAT |-> 12,
     FLOW_MOD |-> 13, FLOW_REMOVED |-> 14, FLOW_MOD_TABLE_ID |-> 15,
     SET_PACKET_IN_FORMAT |-> 16, PACKET_IN |-> 17, FLOW_AGE |-> 18,
     SET_ASYNC_CONFIG |-> 19, SET_CONTROLLER_ID |-> 20]

NXST == [FLOW |-> 0, AGGREGATE |-> 1]

NX_VENDOR_ID == 8992    \* 0x00002320

\* sizeof / offsetof of the wire structures the registry and the raw decoder
\* name, as fixed by the OFP_ASSERTs of the wire headers.
SizeOf ==
    [ofp_header |-> 8, ofp_error_msg |-> 12, ofp_hello |-> 8,
     ofp_vendor_header |-> 12, nicira_header |-> 16,
     ofp10_stats_msg |-> 12, ofp10_vendor_stats_msg |-> 16,
     nicira10_stats_msg |-> 24,
     ofp11_stats_msg |-> 16, ofp11_vendor_stats_msg |-> 20,
     nicira11_stats_msg |-> 24,
     ofp_switch_features |-> 32, ofp10_phy_port |-> 48, ofp11_port |-> 64,
     ofp_switch_config |-> 12, ofp_packet_in_data |-> 18,
     ofp_flow_removed |-> 88, ofp12_flow_removed |-> 48,
     ofp_port_status |-> 16, ofp_packet_out |-> 16, ofp11_packet_out |-> 24,
     ofp10_flow_mod |-> 72, ofp11_flow_mod |-> 48,
     ofp10_port_mod |-> 32, ofp11_port_mod |-> 40,
     ofp10_flow_stats_request |-> 44, ofp11_flow_stats_request |-> 32,
     ofp10_port_stats_request |-> 8, ofp11_port_stats_request |-> 8,
     ofp10_queue_stats_request |-> 8, ofp11_queue_stats_request |-> 8,
     ofp_desc_stats |-> 1056,
     ofp10_aggregate_stats_reply |-> 24, ofp11_aggregate_stats_reply |-> 24,
     ofp10_table_stats |-> 64, ofp11_table_stats |-> 88,
     ofp12_table_stats |-> 128,
     ofp10_port_stats |-> 104, ofp11_port_stats |-> 104,
     ofp10_queue_stats |-> 32, ofp11_queue_stats |-> 32,
     nx_role_request |-> 20, nx_set_flow_format |-> 20,
     nx_set_packet_in_format |-> 20, nx_packet_in |-> 40,
     nx_flow_mod |-> 48, nx_flow_removed |-> 56,
     nx_flow_mod_table_id |-> 24, nx_async_config |-> 40,
     nx_controller_id |-> 24,
     nx_flow_stats_request |-> 8, nx_aggregate_stats_request |-> 8,
     ofp11_packet_in |-> 24]

\* Offsets (first, last byte) of the fields ofputil_decode_raw_msg_type reads,
\* per wire structure.
FieldAt ==
    [version |-> <<0, 0>>, type |-> <<1, 1>>, length |-> <<2, 3>>,
     ovh_vendor |-> <<8, 11>>, nh_subtype |-> <<12, 15>>,
     osm_type |-> <<8, 9>>,
     ovsm10_vendor |-> <<12, 15>>, nsm10_subtype |-> <<16, 19>>,
     ovsm11_vendor |-> <<16, 19>>, nsm11_subtype |-> <<20, 23>>]

\* struct ofputil_msg_type, and the macros that build the registry's rows.
MsgType(code, version, type, stat, vendor, subtype, min_size, extra_multiple) ==
    [code |-> code,
     raw |-> [version |-> version, type |-> type, stat |-> stat,
              vendor |-> vendor, subtype |-> subtype],
     min_size |-> min_size, extra_multiple |-> extra_multiple]

OFPT_ROW(code, version, type, min_size, extra_multiple) ==
    MsgType(code, version, type, 0, 0, 0, min_size, extra_multiple)

OFPST10_ROW(code, type, stat, min_size, extra_multiple) ==
    MsgType(code, OFP_VERSION.OFP10, type, stat, 0, 0,
            SizeOf.ofp10_stats_msg + min_size, extra_multiple)

OFPST11_ROW(code, version, type, stat, min_size, extra_multiple) ==
    MsgType(code, version, type, stat, 0, 0,
            SizeOf.ofp11_stats_msg + min_size, extra_multiple)

NXT_ROW(code, subtype, min_size, extra_multiple) ==
    MsgType(code, OFP_VERSION.OFP10, OFPT.VENDOR, 0, NX_VENDOR_ID, subtype,
            min_size, extra_multiple)

NXST_ROW(code, type, subtype, min_size, extra_multiple) ==
    MsgType(code, OFP_VERSION.OFP10, type, OFPST.VENDOR, NX_VENDOR_ID, subtype,
            SizeOf.nicira10_stats_msg + min_size, extra_multiple)


\* static const struct ofputil_msg_type ofputil_msg_types[], in source order.
\* (OFPT(ERROR, 0, ...) passes version 0, "any version", as its macro writes.)
ofputil_msg_types ==
    << OFPT_ROW("OFPUTIL_OFPT_ERROR", 0, OFPT.ERROR, SizeOf.ofp_error_msg, 1) >>
    \o (LET V == OFP_VERSION.OFP10 IN
    << OFPT_ROW("OFPUTIL_OFPT_HELLO", V, OFPT.HELLO, SizeOf.ofp_hello, 1),
       OFPT_ROW("OFPUTIL_OFPT_ECHO_REQUEST", V, OFPT.ECHO_REQUEST, SizeOf.ofp_header, 1),
       OFPT_ROW("OFPUTIL_OFPT_ECHO_REPLY", V, OFPT.ECHO_REPLY, SizeOf.ofp_header, 1),
       OFPT_ROW("OFPUTIL_OFPT_FEATURES_REQUEST", V, OFPT.FEATURES_REQUEST, SizeOf.ofp_header, 0),
       OFPT_ROW("OFPUTIL_OFPT_FEATURES_REPLY", V, OFPT.FEATURES_REPLY,
                SizeOf.ofp_switch_features, SizeOf.ofp10_phy_port),
       OFPT_ROW("OFPUTIL_OFPT_GET_CONFIG_REQUEST", V, OFPT.GET_CONFIG_REQUEST, SizeOf.ofp_header, 0),
       OFPT_ROW("OFPUTIL_OFPT_GET_CONFIG_REPLY", V, OFPT.GET_CONFIG_REPLY, SizeOf.ofp_switch_config, 0),
       OFPT_ROW("OFPUTIL_OFPT_SET_CONFIG", V, OFPT.SET_CONFIG, SizeOf.ofp_switch_config, 0),
       OFPT_ROW("OFPUTIL_OFPT_PACKET_IN", V, OFPT.PACKET_IN, SizeOf.ofp_packet_in_data, 1),
       OFPT_ROW("OFPUTIL_OFPT_FLOW_REMOVED", V, OFPT.FLOW_REMOVED, SizeOf.ofp_flow_removed, 0),
       OFPT_ROW("OFPUTIL_OFPT_PORT_STATUS", V, OFPT.PORT_STATUS,
                SizeOf.ofp_port_status + SizeOf.ofp10_phy_port, 0),
       OFPT_ROW("OFPUTIL_OFPT_PACKET_OUT", V, OFPT10.PACKET_OUT, SizeOf.ofp_packet_out, 1),
       OFPT_ROW("OFPUTIL_OFPT10_FLOW_MOD", V, OFPT10.FLOW_MOD, SizeOf.ofp10_flow_mod, 1),
       OFPT_ROW("OFPUTIL_OFPT_PORT_MOD", V, OFPT10.PORT_MOD, SizeOf.ofp10_port_mod, 0),
       OFPT_ROW("OFPUTIL_OFPT_BARRIER_REQUEST", V, OFPT10.BARRIER_REQUEST, SizeOf.ofp_header, 0),
       OFPT_ROW("OFPUTIL_OFPT_BARRIER_REPLY", V, OFPT10.BARRIER_REPLY, SizeOf.ofp_header, 0) >>)
    \o (LET V == OFP_VERSION.OFP11 IN
    << OFPT_ROW("OFPUTIL_OFPT_FEATURES_REPLY", V, OFPT.FEATURES_REPLY,
                SizeOf.ofp_switch_features, SizeOf.ofp11_port),
       OFPT_ROW("OFPUTIL_OFPT_PORT_STATUS", V, OFPT.PORT_STATUS,
                SizeOf.ofp_port_status + SizeOf.ofp11_port, 0),
       OFPT_ROW("OFPUTIL_OFPT_PACKET_OUT", V, OFPT11.PACKET_OUT, SizeOf.ofp11_packet_out, 1),
       OFPT_ROW("OFPUTIL_OFPT11_FLOW_MOD", V, OFPT11.FLOW_MOD, SizeOf.ofp11_flow_mod, 1),
       OFPT_ROW("OFPUTIL_OFPT_PORT_MOD", V, OFPT11.PORT_MOD, SizeOf.ofp11_port_mod, 0) >>)
    \o (LET V == OFP_VERSION.OFP12 IN
    << OFPT_ROW("OFPUTIL_OFPT_HELLO", V, OFPT.HELLO, SizeOf.ofp_hello, 1),
       OFPT_ROW("OFPUTIL_OFPT_ECHO_REQUEST", V, OFPT.ECHO_REQUEST, SizeOf.ofp_header, 1),
       OFPT_ROW("OFPUTIL_OFPT_ECHO_REPLY", V, OFPT.ECHO_REPLY, SizeOf.ofp_header, 1),
       OFPT_ROW("OFPUTIL_OFPT_FEATURES_REQUEST", V, OFPT.FEATURES_REQUEST, SizeOf.ofp_header, 0),
       OFPT_ROW("OFPUTIL_OFPT_FEATURES_REPLY", V, OFPT.FEATURES_REPLY,
                SizeOf.ofp_switch_features, SizeOf.ofp11_port),
       OFPT_ROW("OFPUTIL_OFPT_GET_CONFIG_REQUEST", V, OFPT.GET_CONFIG_REQUEST, SizeOf.ofp_header, 0),
       OFPT_ROW("OFPUTIL_OFPT_GET_CONFIG_REPLY", V, OFPT.GET_CONFIG_REPLY, SizeOf.ofp_switch_config, 0),
       OFPT_ROW("OFPUTIL_OFPT_SET_CONFIG", V, OFPT.SET_CONFIG, SizeOf.ofp_switch_config, 0),
       OFPT_ROW("OFPUTIL_OFPT_FLOW_REMOVED", V, OFPT.FLOW_REMOVED, SizeOf.ofp12_flow_removed, 0),
       OFPT_ROW("OFPUTIL_OFPT_PACKET_IN", V, OFPT.PACKET_IN, SizeOf.ofp_packet_in_data, 1),
       OFPT_ROW("OFPUTIL_OFPT_PACKET_OUT", V, OFPT11.PACKET_OUT, SizeOf.ofp11_packet_out, 1),
       OFPT_ROW("OFPUTIL_OFPT_SET_CONFIG", V, OFPT.SET_CONFIG, SizeOf.ofp_switch_config, 0),
       OFPT_ROW("OFPUTIL_OFPT11_FLOW_MOD", V, OFPT11.FLOW_MOD, SizeOf.ofp11_flow_mod, 1),
       OFPT_ROW("OFPUTIL_OFPT_PORT_MOD", V, OFPT11.PORT_MOD, SizeOf.ofp11_port_mod, 0),
       OFPT_ROW("OFPUTIL_OFPT_BARRIER_REQUEST", V, OFPT11.BARRIER_REQUEST, SizeOf.ofp_header, 0),
       OFPT_ROW("OFPUTIL_OFPT_BARRIER_REPLY", V, OFPT11.BARRIER_REPLY, SizeOf.ofp_header, 0) >>)
    \o (LET T == OFPT10.STATS_REQUEST IN
    << OFPST10_ROW("OFPUTIL_OFPST_DESC_REQUEST", T, OFPST.DESC, 0, 0),
       OFPST10_ROW("OFPUTIL_OFPST10_FLOW_REQUEST", T, OFPST.FLOW, SizeOf.ofp10_flow_stats_request, 0),
       OFPST10_ROW("OFPUTIL_OFPST10_AGGREGATE_REQUEST", T, OFPST.AGGREGATE, SizeOf.ofp10_flow_stats_request, 0),
       OFPST10_ROW("OFPUTIL_OFPST_TABLE_REQUEST", T, OFPST.TABLE, 0, 0),
       OFPST10_ROW("OFPUTIL_OFPST_PORT_REQUEST", T, OFPST.PORT, SizeOf.ofp10_port_stats_request, 0),
       OFPST10_ROW("OFPUTIL_OFPST_QUEUE_REQUEST", T, OFPST.QUEUE, SizeOf.ofp10_queue_stats_request, 0),
       OFPST10_ROW("OFPUTIL_OFPST_PORT_DESC_REQUEST", T, OFPST.PORT_DESC, 0, 0) >>)
    \o (LET V == OFP_VERSION.OFP11  T == OFPT11.STATS_REQUEST IN
    << OFPST11_ROW("OFPUTIL_OFPST_DESC_REQUEST", V, T, OFPST.DESC, 0, 0),
       OFPST11_ROW("OFPUTIL_OFPST_TABLE_REQUEST", V, T, OFPST.TABLE, 0, 0),
       OFPST11_ROW("OFPUTIL_OFPST_PORT_REQUEST", V, T, OFPST.PORT, SizeOf.ofp11_port_stats_request, 0),
       OFPST11_ROW("OFPUTIL_OFPST_QUEUE_REQUEST", V, T, OFPST.QUEUE, SizeOf.ofp11_queue_stats_request, 0),
       OFPST11_ROW("OFPUTIL_OFPST_PORT_DESC_REQUEST", V, T, OFPST.PORT_DESC, 0, 0) >>)
    \o (LET V == OFP_VERSION.OFP12  T == OFPT11.STATS_REQUEST IN
    << OFPST11_ROW("OFPUTIL_OFPST_DESC_REQUEST", V, T, OFPST.DESC, 0, 0),
       OFPST11_ROW("OFPUTIL_OFPST11_FLOW_REQUEST", V, T, OFPST.FLOW, SizeOf.ofp11_flow_stats_request, 1),
       OFPST11_ROW("OFPUTIL_OFPST11_AGGREGATE_REQUEST", V, T, OFPST.AGGREGATE, SizeOf.ofp11_flow_stats_request, 1),
       OFPST11_ROW("OFPUTIL_OFPST_TABLE_REQUEST", V, T, OFPST.TABLE, 0, 0),
       OFPST11_ROW("OFPUTIL_OFPST_PORT_REQUEST", V, T, OFPST.PORT, SizeOf.ofp11_port_stats_request, 0),
       OFPST11_ROW("OFPUTIL_OFPST_QUEUE_REQUEST", V, T, OFPST.QUEUE, SizeOf.ofp11_queue_stats_request, 0),
       OFPST11_ROW("OFPUTIL_OFPST_PORT_DESC_REQUEST", V, T, OFPST.PORT_DESC, 0, 0) >>)
    \o (LET T == OFPT10.STATS_REPLY IN
    << OFPST10_ROW("OFPUTIL_OFPST_DESC_REPLY", T, OFPST.DESC, SizeOf.ofp_desc_stats, 0),
       OFPST10_ROW("OFPUTIL_OFPST10_FLOW_REPLY", T, OFPST.FLOW, 0, 1),
       OFPST10_ROW("OFPUTIL_OFPST10_AGGREGATE_REPLY", T, OFPST.AGGREGATE, SizeOf.ofp10_aggregate_stats_reply, 0),
       OFPST10_ROW("OFPUTIL_OFPST_TABLE_REPLY", T, OFPST.TABLE, 0, SizeOf.ofp10_table_stats),
       OFPST10_ROW("OFPUTIL_OFPST_PORT_REPLY", T, OFPST.PORT, 0, SizeOf.ofp10_port_stats),
       OFPST10_ROW("OFPUTIL_OFPST_QUEUE_REPLY", T, OFPST.QUEUE, 0, SizeOf.ofp10_queue_stats),
       OFPST10_ROW("OFPUTIL_OFPST_PORT_DESC_REPLY", T, OFPST.PORT_DESC, 0, SizeOf.ofp10_phy_port) >>)
    \o (LET V == OFP_VERSION.OFP11  T == OFPT11.STATS_REPLY IN
    << OFPST11_ROW("OFPUTIL_OFPST_DESC_REPLY", V, T, OFPST.DESC, SizeOf.ofp_desc_stats, 0),
       OFPST11_ROW("OFPUTIL_OFPST11_AGGREGATE_REPLY", V, T, OFPST.AGGREGATE, SizeOf.ofp11_aggregate_stats_reply, 0),
       OFPST11_ROW("OFPUTIL_OFPST_TABLE_REPLY", V, T, OFPST.TABLE, 0, SizeOf.ofp11_table_stats),
       OFPST11_ROW("OFPUTIL_OFPST_PORT_REPLY", V, T, OFPST.PORT, 0, SizeOf.ofp11_port_stats),
       OFPST11_ROW("OFPUTIL_OFPST_QUEUE_REPLY", V, T, OFPST.QUEUE, 0, SizeOf.ofp11_queue_stats),
       OFPST11_ROW("OFPUTIL_OFPST_PORT_DESC_REPLY", V, T, OFPST.PORT_DESC, 0, SizeOf.ofp11_port) >>)
    \o (LET V == OFP_VERSION.OFP12  T == OFPT11.STATS_REPLY IN
    << OFPST11_ROW("OFPUTIL_OFPST_DESC_REPLY", V, T, OFPST.DESC, SizeOf.ofp_desc_stats, 0),
       OFPST11_ROW("OFPUTIL_OFPST11_FLOW_REPLY", V, T, OFPST.FLOW, 0, 1),
       OFPST11_ROW("OFPUTIL_OFPST11_AGGREGATE_REPLY", V, T, OFPST.AGGREGATE, SizeOf.ofp11_aggregate_stats_reply, 0),
       OFPST11_ROW("OFPUTIL_OFPST_TABLE_REPLY", V, T, OFPST.TABLE, 0, SizeOf.ofp12_table_stats),
       OFPST11_ROW("OFPUTIL_OFPST_PORT_REPLY", V, T, OFPST.PORT, 0, SizeOf.ofp11_port_stats),
       OFPST11_ROW("OFPUTIL_OFPST_QUEUE_REPLY", V, T, OFPST.QUEUE, 0, SizeOf.ofp11_queue_stats),
       OFPST11_ROW("OFPUTIL_OFPST_PORT_DESC_REPLY", V, T, OFPST.PORT_DESC, 0, SizeOf.ofp11_port) >>)
    \o
    << NXT_ROW("OFPUTIL_NXT_ROLE_REQUEST", NXT.ROLE_REQUEST, SizeOf.nx_role_request, 0),
       NXT_ROW("OFPUTIL_NXT_ROLE_REPLY", NXT.ROLE_REPLY, SizeOf.nx_role_request, 0),
       NXT_ROW("OFPUTIL_NXT_SET_FLOW_FORMAT", NXT.SET_FLOW_FORMAT, SizeOf.nx_set_flow_format, 0),
       NXT_ROW("OFPUTIL_NXT_SET_PACKET_IN_FORMAT", NXT.SET_PACKET_IN_FORMAT, SizeOf.nx_set_packet_in_format, 0),
       NXT_ROW("OFPUTIL_NXT_PACKET_IN", NXT.PACKET_IN, SizeOf.nx_packet_in, 1),
       NXT_ROW("OFPUTIL_NXT_FLOW_MOD", NXT.FLOW_MOD, SizeOf.nx_flow_mod, 8),
       NXT_ROW("OFPUTIL_NXT_FLOW_REMOVED", NXT.FLOW_REMOVED, SizeOf.nx_flow_removed, 8),
       NXT_ROW("OFPUTIL_NXT_FLOW_MOD_TABLE_ID", NXT.FLOW_MOD_TABLE_ID, SizeOf.nx_flow_mod_table_id, 0),
       NXT_ROW("OFPUTIL_NXT_FLOW_AGE", NXT.FLOW_AGE, SizeOf.nicira_header, 0),
       NXT_ROW("OFPUTIL_NXT_SET_ASYNC_CONFIG", NXT.SET_ASYNC_CONFIG, SizeOf.nx_async_config, 0),
       NXT_ROW("OFPUTIL_NXT_SET_CONTROLLER_ID", NXT.SET_CONTROLLER_ID, SizeOf.nx_controller_id, 0) >>
    \o
    << NXST_ROW("OFPUTIL_NXST_FLOW_REQUEST", OFPT10.STATS_REQUEST, NXST.FLOW, SizeOf.nx_flow_stats_request, 8),
       NXST_ROW("OFPUTIL_NXST_AGGREGATE_REQUEST", OFPT10.STATS_REQUEST, NXST.AGGREGATE, SizeOf.nx_aggregate_stats_request, 8),
       NXST_ROW("OFPUTIL_NXST_FLOW_REPLY", OFPT10.STATS_REPLY, NXST.FLOW, 0, 8),
       NXST_ROW("OFPUTIL_NXST_AGGREGATE_REPLY", OFPT10.STATS_REPLY, NXST.AGGREGATE, SizeOf.ofp11_aggregate_stats_reply, 0) >>

\* static const struct ofputil_msg_type ofputil_invalid_type: the sentinel
\* that stands for a malformed message.
ofputil_invalid_type ==
    MsgType("OFPUTIL_MSG_INVALID", 0, 0, 0, 0, 0, 0, 0)

\* enum ofperr values the classifier returns (0 is success).
OK == "0"
OFPERR ==
    [BAD_LEN |-> "OFPERR_OFPBRC_BAD_LEN", BAD_VENDOR |-> "OFPERR_OFPBRC_BAD_VENDOR",
     BAD_SUBTYPE |-> "OFPERR_OFPBRC_BAD_SUBTYPE", BAD_STAT |-> "OFPERR_OFPBRC_BAD_STAT",
     BAD_TYPE |-> "OFPERR_OFPBRC_BAD_TYPE"]

ZeroRaw == [version |-> 0, type |-> 0, stat |-> 0, vendor |-> 0, subtype |-> 0]

\* The outcome of the raw decoder: the error, the raw type as far as it was
\* filled in, and the byte ranges of the message that were read.
RawResult(error, raw, reads) == [error |-> error, raw |-> raw, reads |-> reads]

\* The vendor part shared by the three places that pull a vendor id and, for
\* the Nicira vendor id only, a subtype: 'need_vendor'/'need_subtype' are the
\* sizeof checks that guard the two reads.
PullVendor(m, length, raw, reads, need_vendor, vendor_at, need_subtype, subtype_at) ==
    IF length < need_vendor
    THEN RawResult(OFPERR.BAD_LEN, raw, reads)
    ELSE LET raw1 == [raw EXCEPT !.vendor = m.vendor]
             reads1 == reads \cup {vendor_at}
         IN  IF raw1.vendor = NX_VENDOR_ID
             THEN IF length < need_subtype
                  THEN RawResult(OFPERR.BAD_LEN, raw1, reads1)
                  ELSE RawResult(OK, [raw1 EXCEPT !.subtype = m.subtype],
                                 reads1 \cup {subtype_at})
             ELSE RawResult(OFPERR.BAD_VENDOR, raw1, reads1)

\* PullStat without its sizeof check on the stats header (a mutation).
PullStatUnchecked(m, length, raw, reads, need_stat, need_vendor, vendor_at, need_subtype, subtype_at) ==
    IF m.stat = OFPST.VENDOR
    THEN PullVendor(m, length, [raw EXCEPT !.stat = m.stat],
                    reads \cup {FieldAt.osm_type}, need_vendor, vendor_at,
                    need_subtype, subtype_at)
    ELSE RawResult(OK, [raw EXCEPT !.stat = m.stat], reads \cup {FieldAt.osm_type})

\* The statistics part: the stats type and, for OFPST_VENDOR, the vendor part.
PullStat(m, length, raw, reads, need_stat, need_vendor, vendor_at, need_subtype, subtype_at) ==
    IF length < need_stat
    THEN RawResult(OFPERR.BAD_LEN, raw, reads)
    ELSE LET raw1 == [raw EXCEPT !.stat = m.stat]
             reads1 == reads \cup {FieldAt.osm_type}
         IN  IF raw1.stat = OFPST.VENDOR
             THEN PullVendor(m, length, raw1, reads1, need_vendor, vendor_at,
                             need_subtype, subtype_at)
             ELSE RawResult(OK, raw1, reads1)

\* static enum ofperr ofputil_decode_raw_msg_type(oh, length, raw)
ofputil_decode_raw_msg_type(m, length) ==
    IF length < SizeOf.ofp_header
    THEN RawResult(OFPERR.BAD_LEN, ZeroRaw, {})
    ELSE LET raw == [ZeroRaw EXCEPT !.version = m.version, !.type = m.type]
             reads == {FieldAt.version, FieldAt.type}
         IN  IF raw.type = OFPT.VENDOR
             THEN PullVendor(m, length, raw, reads,
                             SizeOf.ofp_vendor_header, FieldAt.ovh_vendor,
                             SizeOf.nicira_header, FieldAt.nh_subtype)
             ELSE IF /\ raw.version = OFP_VERSION.OFP10
                     /\ raw.type \in {OFPT10.STATS_REQUEST, OFPT10.STATS_REPLY}
             THEN PullStat(m, length, raw, reads, SizeOf.ofp10_stats_msg,
                           SizeOf.ofp10_vendor_stats_msg, FieldAt.ovsm10_vendor,
                           SizeOf.nicira10_stats_msg, FieldAt.nsm10_subtype)
             ELSE IF /\ raw.version \in {OFP_VERSION.OFP11, OFP_VERSION.OFP12}
                     /\ raw.type \in {OFPT11.STATS_REQUEST, OFPT11.STATS_REPLY}
             THEN PullStat(m, length, raw, reads, SizeOf.ofp11_stats_msg,
                           SizeOf.ofp11_vendor_stats_msg, FieldAt.ovsm11_vendor,
                           SizeOf.nicira11_stats_msg, FieldAt.nsm11_subtype)
             ELSE RawResult(OK, raw, reads)

\* ofputil_check_length without the "% extra_multiple" test of its default
\* case (a mutation).
check_length_any_excess(type, size) ==
    IF type.extra_multiple = 0
    THEN IF size # type.min_size THEN OFPERR.BAD_LEN ELSE OK
    ELSE IF size < type.min_size THEN OFPERR.BAD_LEN ELSE OK

\* static enum ofperr ofputil_check_length(type, size)
ofputil_check_length(type, size) ==
    CASE type.extra_multiple = 0 ->
            IF size # type.min_size THEN OFPERR.BAD_LEN ELSE OK
      [] type.extra_multiple = 1 ->
            IF size < type.min_size THEN OFPERR.BAD_LEN ELSE OK
      [] OTHER ->
            IF \/ size < type.min_size
               \/ (size - type.min_size) % type.extra_multiple # 0
            THEN OFPERR.BAD_LEN ELSE OK

\* static bool raw_msg_match(want, have)
raw_msg_match(want, have) ==
    /\ (want.version = 0 \/ want.version = have.version)
    /\ want.type = have.type
    /\ want.stat = have.stat
    /\ want.vendor = have.vendor
    /\ want.subtype = have.subtype

\* The least index of a set of row indexes, 0 for the empty set.
LeastOf(hits) ==
    IF hits = {} THEN 0 ELSE CHOOSE i \in hits : \A j \in hits : i <= j

\* The registry's linear scan: the index of the first row that matches 'raw',
\* 0 when none does.
FirstMatch(raw) ==
    LeastOf({i \in DOMAIN ofputil_msg_types :
                raw_msg_match(ofputil_msg_types[i].raw, raw)})

\* What *typep holds: a registry row ("entry", by index), the invalid
\* sentinel, or nothing yet (the caller's pointer was never stored to).
TypeEntry(i) == [kind |-> "entry", index |-> i]
TypeInvalid == [kind |-> "invalid", index |-> 0]
TypeUnset == [kind |-> "unset", index |-> 0]

\* The registry scan of ofputil_decode_msg_type__, given the raw decoder's
\* outcome 'r' and the index 'i' the scan stopped at.
ScanResult(r, i) ==
    IF r.error # OK
    THEN [error |-> r.error, typep |-> TypeUnset, reads |-> r.reads]
    ELSE IF i # 0
    THEN [error |-> OK, typep |-> TypeEntry(i), reads |-> r.reads]
    ELSE [error |-> IF r.raw.vendor # 0 THEN OFPERR.BAD_SUBTYPE
                    ELSE IF r.raw.stat # 0 THEN OFPERR.BAD_STAT
                    ELSE OFPERR.BAD_TYPE,
          typep |-> TypeUnset, reads |-> r.reads]

ScanRegistry(r) == ScanResult(r, FirstMatch(r.raw))

\* static enum ofperr ofputil_decode_msg_type__(oh, length, typep)
ofputil_decode_msg_type__(m, length) ==
    ScanRegistry(ofputil_decode_raw_msg_type(m, length))

\* An entry point that leaves *typep as the scan left it (a mutation).
StoreNothingOnError(error, typep) == typep

\* The "if (error) *typep = &ofputil_invalid_type" that ends both entry points.
StoreInvalidOnError(error, typep) ==
    IF error # OK THEN TypeInvalid ELSE typep

\* The outcome of an entry point: the length it classified under, how many
\* bytes at 'oh' the caller made available, the error returned, what *typep
\* holds and the bytes read.
Outcome(length, avail, error, typep, reads) ==
    [called |-> TRUE, length |-> length, avail |-> avail, error |-> error,
     typep |-> StoreInvalidOnError(error, typep), reads |-> reads]

\* The "if (!error) error = ofputil_check_length(*typep, ntohs(oh->length))"
\* of ofputil_decode_msg_type, given the outcome 'r' of the scan.
CheckLengthOf(r, length) ==
    IF r.error = OK
    THEN ofputil_check_length(ofputil_msg_types[r.typep.index], length)
    ELSE r.error

\* The caller of ofputil_decode_msg_type passes a struct ofp_header and as
\* many bytes as it declares ("oh->length must indicate the correct length").
FullOutcome(r, length) ==
    Outcome(length, IF length < SizeOf.ofp_header THEN SizeOf.ofp_header ELSE length,
            CheckLengthOf(r, length), r.typep, r.reads \cup {FieldAt.length})

\* enum ofperr ofputil_decode_msg_type(oh, typep): the length is the one the
\* header declares.
ofputil_decode_msg_type(m) ==
    FullOutcome(ofputil_decode_msg_type__(m, m.length), m.length)

PartialOutcome(r, length) == Outcome(length, length, r.error, r.typep, r.reads)

\* A partial classification that also applies the size rule (a mutation).
decode_msg_type_partial_sized(m, length) ==
    Outcome(length, length,
            CheckLengthOf(ofputil_decode_msg_type__(m, length), length),
            ofputil_decode_msg_type__(m, length).typep,
            ofputil_decode_msg_type__(m, length).reads)

\* enum ofperr ofputil_decode_msg_type_partial(oh, length, typep)
ofputil_decode_msg_type_partial(m, length) ==
    PartialOutcome(IF length >= SizeOf.ofp_header
                   THEN ofputil_decode_msg_type__(m, length)
                   ELSE [error |-> OFPERR.BAD_LEN, typep |-> TypeUnset, reads |-> {}],
                   length)

\* enum ofputil_msg_code ofputil_msg_type_code(type)
ofputil_msg_type_code(typep) ==
    IF typep.kind = "entry" THEN ofputil_msg_types[typep.index].code
    ELSE IF typep.kind = "invalid" THEN ofputil_invalid_type.code
    ELSE "uninitialized"


(***************************************************************************)
(*            SpecMsgType: classification of received messages             *)
(***************************************************************************)

\* How many extra units past an entry's min_size the declared lengths reach.
MaxExtraUnits == 2
\* The highest header version byte drawn (OFP12_VERSION is 3; above is unknown).
MaxVersion == 4
\* The highest header type byte drawn (OFPT11_BARRIER_REPLY is 21).
MaxType == 22

\* Lengths around the sizes of the generic header and of the type fields.
SmallLens == {0, 4, 7, 8, 9, 11, 12, 15, 16, 19, 20, 23, 24}

\* A vendor id that is not NX_VENDOR_ID.
OtherVendor == NX_VENDOR_ID + 1

\* Whether the raw decoder pulls a stats type from a message of this
\* version and type.
IsStatsMsg(version, type) ==
    \/ version = OFP_VERSION.OFP10
       /\ type \in {OFPT10.STATS_REQUEST, OFPT10.STATS_REPLY}
    \/ version \in {OFP_VERSION.OFP11, OFP_VERSION.OFP12}
       /\ type \in {OFPT11.STATS_REQUEST, OFPT11.STATS_REPLY}

\* The type fields of the messages drawn (all but the declared length).  The
\* bytes of a field the message's layout does not have are not drawn.
MsgTuples ==
    LET Msg(v, t, st, ve, su) ==
            [version |-> v, type |-> t, stat |-> st, vendor |-> ve, subtype |-> su]
    IN  {Msg(x[1], x[2], 0, 0, 0) :
            x \in {y \in (1..MaxVersion) \X (0..MaxType) :
                      y[2] # OFPT.VENDOR /\ ~IsStatsMsg(y[1], y[2])}}
        \cup
        {Msg(v, OFPT.VENDOR, 0, ve, su) :
            v \in 1..MaxVersion, ve \in {NX_VENDOR_ID, OtherVendor},
            su \in {0} \cup (NXT.ROLE_REQUEST .. NXT.SET_CONTROLLER_ID + 1)}
        \cup
        {Msg(x[1], x[2], st, 0, 0) :
            x \in {y \in (1..MaxVersion) \X (0..MaxType) : IsStatsMsg(y[1], y[2])},
            st \in (OFPST.DESC .. OFPST.QUEUE + 1) \cup {OFPST.PORT_DESC}}
        \cup
        {Msg(x[1], x[2], OFPST.VENDOR, ve, su) :
            x \in {y \in (1..MaxVersion) \X (0..MaxType) : IsStatsMsg(y[1], y[2])},
            ve \in {NX_VENDOR_ID, OtherVendor},
            su \in NXST.FLOW .. NXST.AGGREGATE + 1}

\* The registry row the message's type fields hit when all of them can be
\* read (0: none).
HitOf(m) == FirstMatch(ofputil_decode_raw_msg_type(m, SizeOf.nicira11_stats_msg).raw)

\* The lengths around min_size + k * unit of a registry row: the lengths its
\* size rule accepts and their neighbours.
LensNear(e, unit) ==
    {e.min_size + k * unit + d : k \in 0..MaxExtraUnits, d \in {-1, 0, 1}}

LensOfRow(e) == LensNear(e, IF e.extra_multiple = 0 THEN 1 ELSE e.extra_multiple)

LensOfHit(i) == IF i = 0 THEN {} ELSE LensOfRow(ofputil_msg_types[i])

\* The declared lengths drawn for a message: the small ones and, on a
\* registry hit, those around the lengths the row accepts.
LenChoices(m) ==
    {l \in SmallLens \cup LensOfHit(HitOf(m)) : l >= 0 /\ l <= 65535}

InitMsgType ==
    /\ \E m \in MsgTuples : \E l \in LenChoices(m) :
          oh = [version |-> m.version, type |-> m.type, length |-> l,
                stat |-> m.stat, vendor |-> m.vendor, subtype |-> m.subtype]
    /\ full = NotCalled
    /\ part = NotCalled
    /\ neg = Idle /\ up = Idle /\ fmu = Idle /\ nr = Idle /\ mc = Idle
    /\ wb = Idle
    /\ fsr = Idle
    /\ srp = Idle
    /\ sf = Idle
    /\ dec = Idle
    /\ xid = Idle
    /\ enc = Idle
    /\ pt = Idle
    /\ pull = Idle
    /\ pki = Idle
    /\ fmr = Idle
    /\ pko = Idle
    /\ pd = Idle
    /\ pmr = Idle

\* A caller classifies the whole message.
DecodeMsgType ==
    /\ oh # Idle
    /\ full' = ofputil_decode_msg_type(oh)
    /\ UNCHANGED <<oh, part, notMsgTypeVars>>

\* A caller peeks at the type with only a prefix of the message buffered.
DecodeMsgTypePartial ==
    /\ oh # Idle
    /\ \E length \in SmallLens \cup {oh.length} :
          part' = ofputil_decode_msg_type_partial(oh, length)
    /\ UNCHANGED <<oh, full, notMsgTypeVars>>

NextMsgType == DecodeMsgType \/ DecodeMsgTypePartial

SpecMsgType == InitMsgType /\ [][NextMsgType]_vars

(***************************************************************************)
(*                 Properties of message classification                    *)
(***************************************************************************)

\* The size rule of a registry row, as the registry's documentation words it.
SizeRule(e, length) ==
    IF e.extra_multiple = 0 THEN length = e.min_size
    ELSE IF e.extra_multiple = 1 THEN length >= e.min_size
    ELSE length >= e.min_size /\ (length - e.min_size) % e.extra_multiple = 0

SizeRuleDecides(e, r) ==
    /\ r.error = OK <=> SizeRule(e, r.length)
    /\ ~SizeRule(e, r.length) => r.error = OFPERR.BAD_LEN
    /\ r.length = e.min_size => r.error = OK
    /\ e.extra_multiple > 0 /\ r.length = e.min_size + e.extra_multiple
          => r.error = OK

SizeRuleDecidesHit(i, r) == i = 0 \/ SizeRuleDecides(ofputil_msg_types[i], r)

\* C1: for a message whose type fields hit a registry row, full
\* classification succeeds exactly when the declared length satisfies the
\* row's size rule (exact, at least, or a whole number of extra units); the
\* boundary lengths are accepted and every violating length is BAD_LEN.
C1_SizeRuleDecidesSuccess ==
    full.called => SizeRuleDecidesHit(HitOf(oh), full)

OneExtraUnit(e, length) ==
    e.extra_multiple > 1 /\ length = e.min_size + e.extra_multiple

\* A message of a row with a unit above 1, one unit longer than the minimum,
\* was accepted.
C1_Witness ==
    /\ full.called
    /\ full.error = OK
    /\ OneExtraUnit(ofputil_msg_types[full.typep.index], oh.length)

ReadsWithin(r) == \A rd \in r.reads : rd[2] < r.avail

ShortIsBadLen(r) ==
    r.length < SizeOf.ofp_header => r.error = OFPERR.BAD_LEN

\* The optional fields are read in the order that the length checks allow:
\* a field is among the bytes read only if the length covers its last byte.
ReadsAfterCheck(r) ==
    \A f \in {FieldAt.osm_type, FieldAt.ovh_vendor, FieldAt.nh_subtype,
              FieldAt.ovsm10_vendor, FieldAt.nsm10_subtype,
              FieldAt.ovsm11_vendor, FieldAt.nsm11_subtype} :
        f \in r.reads => f[2] < r.length

\* C2: a classification under a length below the 8-byte header is BAD_LEN,
\* and no classification reads a byte at or past the available length.
C2_NoReadPastLength ==
    /\ full.called => ShortIsBadLen(full) /\ ReadsWithin(full) /\ ReadsAfterCheck(full)
    /\ part.called => ShortIsBadLen(part) /\ ReadsWithin(part) /\ ReadsAfterCheck(part)

\* A header declaring fewer than 8 bytes was rejected, and a Nicira vendor
\* message with 12..15 bytes available had its vendor id read and its
\* subtype left alone.
C2_Witness ==
    /\ full.called /\ oh.length < SizeOf.ofp_header
    /\ full.error = OFPERR.BAD_LEN
    /\ part.called /\ part.length >= SizeOf.ofp_vendor_header
    /\ part.length < SizeOf.nicira_header
    /\ oh.type = OFPT.VENDOR /\ oh.vendor = NX_VENDOR_ID
    /\ FieldAt.ovh_vendor \in part.reads
    /\ FieldAt.nh_subtype \notin part.reads
    /\ part.error = OFPERR.BAD_LEN

SentinelOnError(r) ==
    IF r.error # OK
    THEN /\ r.typep = TypeInvalid
         /\ ofputil_msg_type_code(r.typep) = "OFPUTIL_MSG_INVALID"
    ELSE /\ r.typep.kind = "entry"
         /\ r.typep.index \in DOMAIN ofputil_msg_types
         /\ ofputil_msg_type_code(r.typep) # "OFPUTIL_MSG_INVALID"

\* C3: on any error the type stored for the caller is the invalid sentinel
\* (code OFPUTIL_MSG_INVALID); on success it is a registry row.
C3_SentinelExactlyOnError ==
    /\ full.called => SentinelOnError(full)
    /\ part.called => SentinelOnError(part)

\* A full classification failed (on the size rule) and stored the sentinel,
\* while the partial one of the same message succeeded and stored a row.
C3_Witness ==
    /\ full.called /\ part.called
    /\ full.error = OFPERR.BAD_LEN
    /\ full.typep = TypeInvalid
    /\ part.error = OK /\ part.typep.kind = "entry"

\* How many leading bytes hold the fields that identify the type of message
\* 'm': the header, then a vendor header and Nicira subtype, or a stats
\* header and, for vendor stats, the vendor id and Nicira subtype.
TypeFieldsSize(m) ==
    IF m.type = OFPT.VENDOR
    THEN IF m.vendor = NX_VENDOR_ID THEN SizeOf.nicira_header
         ELSE SizeOf.ofp_vendor_header
    ELSE IF ~IsStatsMsg(m.version, m.type) THEN SizeOf.ofp_header
    ELSE IF m.stat # OFPST.VENDOR
    THEN (IF m.version = OFP_VERSION.OFP10 THEN SizeOf.ofp10_stats_msg
          ELSE SizeOf.ofp11_stats_msg)
    ELSE IF m.vendor # NX_VENDOR_ID
    THEN (IF m.version = OFP_VERSION.OFP10 THEN SizeOf.ofp10_vendor_stats_msg
          ELSE SizeOf.ofp11_vendor_stats_msg)
    ELSE (IF m.version = OFP_VERSION.OFP10 THEN SizeOf.nicira10_stats_msg
          ELSE SizeOf.nicira11_stats_msg)

IsPrefixRun ==
    /\ full.called /\ full.error = OK
    /\ part.called /\ part.length >= SizeOf.ofp_header /\ part.length <= oh.length

\* C4 as stated: partial classification of any prefix of at least 8 bytes of
\* a message that full classification accepts succeeds with the same type.
C4_AnyPrefixSameType ==
    IsPrefixRun => part.error = OK /\ part.typep = full.typep

\* C4, amended: the prefix has to hold the fields that identify the type;
\* then partial classification succeeds with the same type whatever the
\* row's size rule, and a shorter prefix is BAD_LEN with the sentinel.
C4_TypeFieldsPrefixSameType ==
    IsPrefixRun =>
        IF part.length >= TypeFieldsSize(oh)
        THEN part.error = OK /\ part.typep = full.typep
        ELSE part.error = OFPERR.BAD_LEN /\ part.typep = TypeInvalid

\* A prefix that holds the type fields but is shorter than the row's minimum
\* size was classified as the full message was.
C4_Witness ==
    /\ IsPrefixRun
    /\ part.length >= TypeFieldsSize(oh)
    /\ part.length < ofputil_msg_types[full.typep.index].min_size
    /\ part.error = OK /\ part.typep = full.typep


(***************************************************************************)
(*                       PROTOCOL NEGOTIATION                              *)
(***************************************************************************)

\* enum ofputil_protocol: a protocol is one of these names and a bitmask of
\* protocols is a set of them.  OpenFlow 1.2 has one variant only; the
\* flow_mod_table_id extension bit belongs to the two _TID protocols.
OFPUTIL_P_ANY == {"OF10", "OF10_TID", "NXM", "NXM_TID", "OF12"}
OFPUTIL_P_OF10_ANY == {"OF10", "OF10_TID"}
OFPUTIL_P_NXM_ANY == {"NXM", "NXM_TID"}
OFPUTIL_P_TID == {"OF10_TID", "NXM_TID"}

\* What a NOT_REACHED() or a failed assert() leaves in place of a value.
Aborted == "abort"

\* bool ofputil_protocol_is_valid(protocol)
ofputil_protocol_is_valid(protocol) == protocol \in OFPUTIL_P_ANY

\* ofputil_protocol_set_tid with 'enable' ignored (a mutation).
protocol_keep_tid(protocol, enable) == protocol

\* enum ofputil_protocol ofputil_protocol_set_tid(protocol, enable)
ofputil_protocol_set_tid(protocol, enable) ==
    CASE protocol \in {"OF10", "OF10_TID"} -> IF enable THEN "OF10_TID" ELSE "OF10"
      [] protocol \in {"NXM", "NXM_TID"} -> IF enable THEN "NXM_TID" ELSE "NXM"
      [] protocol = "OF12" -> "OF12"
      [] OTHER -> Aborted

\* enum ofputil_protocol ofputil_protocol_to_base(protocol)
ofputil_protocol_to_base(protocol) == ofputil_protocol_set_tid(protocol, FALSE)

\* ofputil_protocol_set_base that stays on the current base (a mutation).
protocol_keep_base(cur, new_base) == cur

\* enum ofputil_protocol ofputil_protocol_set_base(cur, new_base)
ofputil_protocol_set_base(cur, new_base) ==
    CASE new_base \in {"OF10", "OF10_TID"} ->
            ofputil_protocol_set_tid("OF10", cur \in OFPUTIL_P_TID)
      [] new_base \in {"NXM", "NXM_TID"} ->
            ofputil_protocol_set_tid("NXM", cur \in OFPUTIL_P_TID)
      [] new_base = "OF12" ->
            ofputil_protocol_set_tid("OF12", cur \in OFPUTIL_P_TID)
      [] OTHER -> Aborted

\* The messages ofputil_encode_set_protocol returns.
NoMessage == [type |-> "NULL"]
ofputil_encode_nx_set_flow_format(nxff) == [type |-> "NXT_SET_FLOW_FORMAT", format |-> nxff]
ofputil_make_flow_mod_table_id(flow_mod_table_id) ==
    [type |-> "NXT_FLOW_MOD_TABLE_ID", set |-> flow_mod_table_id]

\* The switch (want_base) of ofputil_encode_set_protocol.
SetFlowFormatFor(want_base) ==
    CASE want_base = "NXM" -> ofputil_encode_nx_set_flow_format("NXFF_NXM")
      [] want_base = "OF10" -> ofputil_encode_nx_set_flow_format("NXFF_OPENFLOW10")
      [] want_base = "OF12" -> ofputil_encode_nx_set_flow_format("NXFF_OPENFLOW12")
      [] OTHER -> [type |-> Aborted]

\* struct ofpbuf *ofputil_encode_set_protocol(current, want, next): the
\* message returned and *next; on the no-message path, whether its assert held.
ofputil_encode_set_protocol(current, want) ==
    IF ofputil_protocol_to_base(current) # ofputil_protocol_to_base(want)
    THEN [msg |-> SetFlowFormatFor(ofputil_protocol_to_base(want)),
          next |-> ofputil_protocol_set_base(current, ofputil_protocol_to_base(want))]
    ELSE IF (current \in OFPUTIL_P_TID) # (want \in OFPUTIL_P_TID)
    THEN [msg |-> ofputil_make_flow_mod_table_id(want \in OFPUTIL_P_TID),
          next |-> ofputil_protocol_set_tid(current, want \in OFPUTIL_P_TID)]
    ELSE IF current = want
    THEN [msg |-> NoMessage, next |-> current]
    ELSE [msg |-> [type |-> Aborted], next |-> Aborted]

(***************************************************************************)
(*   SpecProto: a caller drives a connection from 'current' to 'want'      *)
(***************************************************************************)

\* The calls a caller makes towards one target before it gives up.
MaxCalls == 4

\* The state of a negotiation: the connection's protocol, the target, the
\* number of calls made for this target that returned a message, and the
\* arguments and results of the last call.
Negotiation(current, want, sent, calls, last) ==
    [current |-> current, want |-> want, sent |-> sent, calls |-> calls, last |-> last]

LastCall(current, want, r) ==
    [called |-> TRUE, current |-> current, want |-> want, msg |-> r.msg, next |-> r.next]

InitProto ==
    /\ \E current \in OFPUTIL_P_ANY, want \in OFPUTIL_P_ANY :
          neg = Negotiation(current, want, 0, 0, NotCalled)
    /\ oh = Idle /\ full = Idle /\ part = Idle
    /\ up = Idle /\ fmu = Idle /\ nr = Idle /\ mc = Idle
    /\ wb = Idle
    /\ fsr = Idle
    /\ srp = Idle
    /\ sf = Idle
    /\ dec = Idle
    /\ xid = Idle
    /\ enc = Idle
    /\ pt = Idle
    /\ pull = Idle
    /\ pki = Idle
    /\ fmr = Idle
    /\ pko = Idle
    /\ pd = Idle
    /\ pmr = Idle

\* The caller's loop body: call, send the message if there is one, and take
\* *next as the connection's protocol ("if the switch processes the returned
\* message correctly").
AfterCall(n, r) ==
    Negotiation(IF r.next = Aborted THEN n.current ELSE r.next, n.want,
                IF r.msg = NoMessage THEN n.sent ELSE n.sent + 1,
                n.calls + 1, LastCall(n.current, n.want, r))

EncodeSetProtocol ==
    /\ neg # Idle
    /\ neg.calls < MaxCalls
    /\ ~(neg.last.called /\ neg.last.next = Aborted)
    /\ neg' = AfterCall(neg, ofputil_encode_set_protocol(neg.current, neg.want))
    /\ UNCHANGED notProtoVars

\* A caller whose connection has reached its target picks another target.
Retarget ==
    /\ neg # Idle
    /\ neg.last.called /\ neg.last.msg = NoMessage
    /\ \E want \in OFPUTIL_P_ANY \ {neg.want} :
          neg' = Negotiation(neg.current, want, 0, 0, neg.last)
    /\ UNCHANGED notProtoVars

NextProto == EncodeSetProtocol \/ Retarget

SpecProto == InitProto /\ [][NextProto]_vars


(***************************************************************************)
(*                 Properties of protocol negotiation                      *)
(***************************************************************************)

\* C5: a negotiation sends at most 2 messages: a call that returns a message
\* is never made once current == want, after two such calls current == want,
\* and a call with current == want returns NULL and stores current in *next.
C5_ConvergesInTwoMessages ==
    neg # Idle =>
        /\ neg.sent <= 2
        /\ neg.sent = 2 => neg.current = neg.want
        /\ neg.last.called =>
              /\ neg.last.msg = NoMessage <=> neg.last.current = neg.last.want
              /\ neg.last.msg = NoMessage => neg.last.next = neg.last.current
              /\ neg.last.next # Aborted

\* Two messages were sent, the connection is at its target, and the third
\* call returned no message.
C5_Witness ==
    /\ neg # Idle
    /\ neg.sent = 2 /\ neg.calls = 3
    /\ neg.current = neg.want
    /\ neg.last.called /\ neg.last.msg = NoMessage
    /\ neg.last.next = neg.want

\* The base protocol of each protocol, and the NXFF_* value that selects it.
BaseOf ==
    [OF10 |-> "OF10", OF10_TID |-> "OF10", NXM |-> "NXM", NXM_TID |-> "NXM",
     OF12 |-> "OF12"]
FlowFormatOf ==
    [OF10 |-> "NXFF_OPENFLOW10", NXM |-> "NXFF_NXM", OF12 |-> "NXFF_OPENFLOW12"]
HasTid == [OF10 |-> FALSE, OF10_TID |-> TRUE, NXM |-> FALSE, NXM_TID |-> TRUE,
           OF12 |-> FALSE]
\* Base 'b' with the table-id bit 'tid'; OpenFlow 1.2 has no such bit.
WithTid(b, tid) ==
    IF b = "OF12" \/ ~tid THEN b ELSE IF b = "OF10" THEN "OF10_TID" ELSE "NXM_TID"

OneTransition(c) ==
    /\ BaseOf[c.current] # BaseOf[c.want] =>
          /\ c.msg = [type |-> "NXT_SET_FLOW_FORMAT",
                      format |-> FlowFormatOf[BaseOf[c.want]]]
          /\ c.next = WithTid(BaseOf[c.want], HasTid[c.current])
    /\ BaseOf[c.current] = BaseOf[c.want] /\ HasTid[c.current] # HasTid[c.want] =>
          /\ c.msg = [type |-> "NXT_FLOW_MOD_TABLE_ID", set |-> HasTid[c.want]]
          /\ c.next = c.want
    /\ c.msg.type = "NXT_FLOW_MOD_TABLE_ID" => BaseOf[c.current] = BaseOf[c.want]
    /\ ofputil_protocol_is_valid(c.next)
    /\ c.msg.type # Aborted

\* C6: one call is one transition: with different bases it returns the
\* NXT_SET_FLOW_FORMAT message for want's base and *next is that base with
\* current's table-id bit (none for OpenFlow 1.2); with equal bases and
\* different table-id bits it returns NXT_FLOW_MOD_TABLE_ID and *next is
\* want; *next is a valid protocol and neither NOT_REACHED() nor the
\* assert(current == want) is hit.
C6_OneTransitionPerCall ==
    neg # Idle /\ neg.last.called => OneTransition(neg.last)

\* A call that changed the base from NXM to OpenFlow 1.0 and kept the
\* table-id bit that the target does not want.
C6_Witness ==
    /\ neg # Idle /\ neg.last.called
    /\ neg.last.current = "NXM_TID" /\ neg.last.want = "OF10"
    /\ neg.last.msg.type = "NXT_SET_FLOW_FORMAT"
    /\ neg.last.next = "OF10_TID"



(***************************************************************************)
(*                         CLASSIFIER RULES                                *)
(***************************************************************************)

\* flow_wildcards_t: the FWW_* bits, a set of their names.
FWW_ALL ==
    {"IN_PORT", "DL_TYPE", "NW_PROTO", "NW_DSCP", "NW_ECN", "NW_TTL",
     "ARP_SHA", "ARP_THA", "IPV6_LABEL", "MPLS_LABEL", "MPLS_TC", "MPLS_STACK",
     "VLAN_TPID", "VLAN_QINQ_VID", "VLAN_QINQ_PCP"}

FLOW_N_REGS == 8

\* Ethernet types and IP protocols (host byte order).
ETH_TYPE ==
    [IP |-> 2048, ARP |-> 2054, VLAN |-> 33024, IPV6 |-> 34525,
     VLAN_8021AD |-> 34984, MPLS |-> 34887, MPLS_MCAST |-> 34888]
IPPROTO == [ICMP |-> 1, TCP |-> 6, UDP |-> 17, ICMPV6 |-> 58, SCTP |-> 132]

UINT16_MAX == 2^16 - 1

\* a & b on non-negative integers.
RECURSIVE BitAnd(_, _)
BitAnd(a, b) ==
    IF a = 0 \/ b = 0 THEN 0
    ELSE (a % 2) * (b % 2) + 2 * BitAnd(a \div 2, b \div 2)

\* A 32-bit value (an IPv4 address or mask, host byte order) is the pair of
\* its high and low 16 bits; an Ethernet address is its 6 bytes.
U32(hi, lo) == <<hi, lo>>
U32_ZERO == U32(0, 0)
UINT32_MAX == U32(UINT16_MAX, UINT16_MAX)
U32Not(x) == U32(UINT16_MAX - x[1], UINT16_MAX - x[2])
U32And(x, y) == U32(BitAnd(x[1], y[1]), BitAnd(x[2], y[2]))
\* x + 1 modulo 2^32
U32Inc(x) ==
    IF x[2] < UINT16_MAX THEN U32(x[1], x[2] + 1)
    ELSE U32((x[1] + 1) % 2^16, 0)
ETH_ADDR_ZERO == <<0, 0, 0, 0, 0, 0>>
ETH_ADDR_EXACT == <<255, 255, 255, 255, 255, 255>>

\* struct flow_wildcards after flow_wildcards_init_catchall().
flow_wildcards_catchall ==
    [wildcards |-> FWW_ALL,
     tun_id_mask |-> 0, nw_src_mask |-> U32_ZERO, nw_dst_mask |-> U32_ZERO,
     ipv6_src_mask |-> 0, ipv6_dst_mask |-> 0, nd_target_mask |-> 0,
     reg_masks |-> [i \in 1..FLOW_N_REGS |-> 0],
     vlan_tci_mask |-> 0, tp_src_mask |-> 0, tp_dst_mask |-> 0,
     nw_frag_mask |-> 0, dl_src_mask |-> ETH_ADDR_ZERO,
     dl_dst_mask |-> ETH_ADDR_ZERO]

\* struct cls_rule after cls_rule_init_catchall(): the flow fields that
\* lib/ofp-util.c reads or writes, all zero, and everything wildcarded.
cls_rule_catchall ==
    [flow |-> [in_port |-> 0, dl_src |-> ETH_ADDR_ZERO,
               dl_dst |-> ETH_ADDR_ZERO, dl_type |-> 0,
               vlan_tci |-> 0, vlan_tpid |-> 0, vlan_qinq_tci |-> 0,
               nw_src |-> U32_ZERO, nw_dst |-> U32_ZERO,
               nw_proto |-> 0, nw_tos |-> 0,
               tp_src |-> 0, tp_dst |-> 0],
     wc |-> flow_wildcards_catchall,
     priority |-> 0]

\* Ways to change one member of a rule: match a FWW_* field, set a mask of
\* the wildcards, set a register mask, set a field of the flow.
Unwild(name) == [kind |-> "unwild", f |-> name, v |-> 0]
SetMask(f, v) == [kind |-> "mask", f |-> f, v |-> v]
SetReg(i, v) == [kind |-> "reg", f |-> i, v |-> v]
SetFlow(f, v) == [kind |-> "flow", f |-> f, v |-> v]

ApplyChange(rule, c) ==
    CASE c.kind = "unwild" ->
            [rule EXCEPT !.wc.wildcards = rule.wc.wildcards \ {c.f}]
      [] c.kind = "mask" -> [rule EXCEPT !.wc[c.f] = c.v]
      [] c.kind = "reg" -> [rule EXCEPT !.wc.reg_masks[c.f] = c.v]
      [] c.kind = "flow" -> [rule EXCEPT !.flow[c.f] = c.v]

\* The increasing index sequences of length at most k over 1..n.
RECURSIVE Picks(_, _)
Picks(n, k) ==
    IF k = 0 THEN {<<>>}
    ELSE Picks(n, k - 1) \cup
         {Append(x[1], x[2]) :
            x \in {y \in Picks(n, k - 1) \X (1..n) :
                      /\ Len(y[1]) = k - 1
                      /\ (k = 1 \/ y[1][k - 1] < y[2])}}

\* 'rule' with the changes that the index sequence 'p' picks, in order.
RECURSIVE ApplyChanges(_, _, _)
ApplyChanges(rule, changes, p) ==
    IF p = <<>> THEN rule
    ELSE ApplyChanges(ApplyChange(rule, changes[Head(p)]), changes, Tail(p))

(***************************************************************************)
(*                         USABLE PROTOCOLS                                *)
(***************************************************************************)

\* static inline bool ip_is_cidr(ovs_be32 netmask): x = ~ntohl(netmask);
\* return !(x & (x + 1)).
ip_is_cidr(netmask) ==
    U32And(U32Not(netmask), U32Inc(U32Not(netmask))) = U32_ZERO

\* regs_fully_wildcarded that overlooks the registers (a mutation).
regs_overlooked(wc) == TRUE

\* static bool regs_fully_wildcarded(wc)
regs_fully_wildcarded(wc) == \A i \in 1..FLOW_N_REGS : wc.reg_masks[i] = 0

\* The tests of ofputil_usable_protocols that return OFPUTIL_P_NXM_ANY, in
\* source order (eth_mask_is_exact is "all ones", eth_addr_is_zero "zero").
NeedsNxm(flow, wc) ==
    \/ wc.dl_src_mask # ETH_ADDR_EXACT /\ wc.dl_src_mask # ETH_ADDR_ZERO
    \/ wc.dl_dst_mask # ETH_ADDR_EXACT /\ wc.dl_dst_mask # ETH_ADDR_ZERO
    \/ "ARP_SHA" \notin wc.wildcards \/ "ARP_THA" \notin wc.wildcards
    \/ "DL_TYPE" \notin wc.wildcards /\ flow.dl_type = ETH_TYPE.IPV6
    \/ ~regs_fully_wildcarded(wc)
    \/ wc.tun_id_mask # 0
    \/ wc.nw_frag_mask # 0
    \/ "IPV6_LABEL" \notin wc.wildcards
    \/ "NW_ECN" \notin wc.wildcards
    \/ "NW_TTL" \notin wc.wildcards
    \/ ~ip_is_cidr(wc.nw_src_mask) \/ ~ip_is_cidr(wc.nw_dst_mask)
    \/ wc.tp_src_mask # 0 /\ wc.tp_src_mask # UINT16_MAX
    \/ wc.tp_dst_mask # 0 /\ wc.tp_dst_mask # UINT16_MAX
    \/ "MPLS_LABEL" \notin wc.wildcards
    \/ "MPLS_TC" \notin wc.wildcards
    \/ "MPLS_STACK" \notin wc.wildcards
    \/ "VLAN_TPID" \notin wc.wildcards
    \/ "VLAN_QINQ_VID" \notin wc.wildcards
    \/ "VLAN_QINQ_PCP" \notin wc.wildcards

\* enum ofputil_protocol ofputil_usable_protocols(rule)
ofputil_usable_protocols(rule) ==
    IF NeedsNxm(rule.flow, rule.wc) THEN OFPUTIL_P_NXM_ANY ELSE OFPUTIL_P_ANY



\* struct ofpact: the type, whether ofpact_is_instruction() holds of it, the
\* compat member, and for OFPACT_APPLY_ACTIONS / OFPACT_WRITE_ACTIONS the
\* nested action list.
Ofpact(type, instruction, compat, ofpacts) ==
    [type |-> type, instruction |-> instruction, compat |-> compat,
     ofpacts |-> ofpacts]

\* The result of a computation that an assert() guards: the value, and
\* whether this assert or one in a nested call failed.
Asserted(protocols, aborted) ==
    [protocols |-> protocols, aborted |-> aborted \/ protocols = {}]

\* The switch (ofpact->type) of ofputil_usable_protocols_with_action, for
\* the types without a nested list: the mask that the type allows.
ActionProtocols(a) ==
    CASE a.type \in {"OFPACT_END", "OFPACT_CLEAR_ACTIONS"} -> OFPUTIL_P_ANY
      [] a.type = "OFPACT_RESUBMIT" ->
            IF a.instruction THEN {"OF12"} ELSE OFPUTIL_P_NXM_ANY \cup {"OF12"}
      [] a.type = "OFPACT_REG_LOAD" ->
            IF a.compat = "OFPUTIL_OFPAT12_SET_FIELD" THEN {"OF12"}
            ELSE OFPUTIL_P_NXM_ANY \cup {"OF12"}
      [] a.type \in {"OFPACT_OUTPUT", "OFPACT_ENQUEUE", "OFPACT_SET_VLAN_VID",
                     "OFPACT_SET_VLAN_PCP", "OFPACT_STRIP_VLAN",
                     "OFPACT_SET_ETH_SRC", "OFPACT_SET_ETH_DST",
                     "OFPACT_SET_IPV4_SRC", "OFPACT_SET_IPV4_DST",
                     "OFPACT_SET_IPV4_DSCP"} -> OFPUTIL_P_ANY
      [] a.type \in {"OFPACT_COPY_TTL_OUT", "OFPACT_COPY_TTL_IN",
                     "OFPACT_POP_VLAN"} -> {"OF12"}
      [] a.type \in {"OFPACT_PUSH_MPLS", "OFPACT_POP_MPLS", "OFPACT_PUSH_VLAN",
                     "OFPACT_SET_MPLS_LABEL", "OFPACT_SET_MPLS_TC",
                     "OFPACT_SET_MPLS_TTL", "OFPACT_DEC_MPLS_TTL"} ->
            {"OF12"} \cup OFPUTIL_P_NXM_ANY
      [] a.type \in {"OFPACT_SET_L4_SRC_PORT", "OFPACT_SET_L4_DST_PORT"} ->
            {"OF10"} \cup OFPUTIL_P_NXM_ANY
      [] a.type \in {"OFPACT_CONTROLLER", "OFPACT_OUTPUT_REG", "OFPACT_BUNDLE",
                     "OFPACT_REG_MOVE", "OFPACT_DEC_TTL", "OFPACT_SET_TUNNEL",
                     "OFPACT_SET_QUEUE", "OFPACT_POP_QUEUE",
                     "OFPACT_FIN_TIMEOUT", "OFPACT_LEARN", "OFPACT_MULTIPATH",
                     "OFPACT_AUTOPATH", "OFPACT_NOTE", "OFPACT_EXIT"} ->
            OFPUTIL_P_NXM_ANY \cup {"OF12"}

\* The protocols that ofputil_usable_protocols_with_action starts from.
InitialActionProtocols(a) ==
    IF a.instruction
    THEN (OFPUTIL_P_ANY \cup OFPUTIL_P_TID) \cap (OFPUTIL_P_NXM_ANY \cup {"OF12"})
    ELSE OFPUTIL_P_ANY \cup OFPUTIL_P_TID

NarrowedBy(protocols, nested) ==
    Asserted(protocols \cap nested.protocols, nested.aborted)

RECURSIVE ofputil_usable_protocols_with_actions(_)

\* static enum ofputil_protocol ofputil_usable_protocols_with_action(ofpact)
ofputil_usable_protocols_with_action(a) ==
    IF a.type \in {"OFPACT_APPLY_ACTIONS", "OFPACT_WRITE_ACTIONS"}
    THEN NarrowedBy(InitialActionProtocols(a),
                    ofputil_usable_protocols_with_actions(a.ofpacts))
    ELSE Asserted(InitialActionProtocols(a) \cap ActionProtocols(a), FALSE)

\* The OFPACT_FOR_EACH loop of ofputil_usable_protocols_with_actions.
RECURSIVE ForEachAction(_, _)
ForEachAction(ofpacts, acc) ==
    IF ofpacts = <<>> \/ acc.aborted THEN acc
    ELSE ForEachAction(Tail(ofpacts),
                       NarrowedBy(acc.protocols,
                                  ofputil_usable_protocols_with_action(Head(ofpacts))))

\* static enum ofputil_protocol ofputil_usable_protocols_with_actions(ofpacts)
\* (a null 'ofpacts' is the empty list here).
ofputil_usable_protocols_with_actions(ofpacts) ==
    ForEachAction(ofpacts, [protocols |-> OFPUTIL_P_ANY, aborted |-> FALSE])

\* struct ofputil_flow_mod, the members that decide the usable protocols.
FlowMod(cr, table_id, cookie_mask, ofpacts) ==
    [cr |-> cr, table_id |-> table_id, cookie_mask |-> cookie_mask,
     ofpacts |-> ofpacts]

\* One iteration of the loop of ofputil_flow_mod_usable_protocols, up to the
\* "usable_protocols |= OFPUTIL_P_OF12".
BeforeActions(usable_protocols, fm) ==
    ((usable_protocols \cap ofputil_usable_protocols(fm.cr))
        \cap (IF fm.table_id # 255 THEN OFPUTIL_P_TID ELSE OFPUTIL_P_ANY)
        \cap (IF fm.cookie_mask # 0 THEN OFPUTIL_P_NXM_ANY ELSE OFPUTIL_P_ANY))
    \cup {"OF12"}

\* One iteration of the loop: usable_protocols after it, and whether an
\* assert in ofputil_usable_protocols_with_actions failed.
FlowModIteration(usable_protocols, fm, with_actions) ==
    [protocols |-> BeforeActions(usable_protocols, fm) \cap with_actions.protocols,
     aborted |-> with_actions.aborted]



(***************************************************************************)
(*   SpecUsable: protocols usable for a rule and for an array of flow mods *)
(***************************************************************************)

\* How many members of the catch-all rule a drawn rule changes.
MaxChanges == 2
\* How many flow mods the array of a run holds at most.
MaxFms == 2

\* An Ethernet mask for the multicast bit only, a /24 and a non-contiguous
\* IPv4 mask, and a transport-port mask for the high byte.
ETH_MCAST_MASK == <<1, 0, 0, 0, 0, 0>>
CIDR24_MASK == U32(UINT16_MAX, 2^16 - 2^8)
NON_CIDR_MASK == U32(UINT16_MAX, 2^8 - 1)
TP_HIGH_BYTE_MASK == 2^16 - 2^8

UsableChanges ==
    << SetMask("dl_src_mask", ETH_ADDR_EXACT), SetMask("dl_src_mask", ETH_MCAST_MASK),
       SetMask("dl_dst_mask", ETH_ADDR_EXACT), SetMask("dl_dst_mask", ETH_MCAST_MASK),
       Unwild("ARP_SHA"), Unwild("ARP_THA"),
       Unwild("DL_TYPE"), SetFlow("dl_type", ETH_TYPE.IPV6),
       SetFlow("dl_type", ETH_TYPE.IP),
       SetReg(1, 1), SetReg(FLOW_N_REGS, 1),
       SetMask("tun_id_mask", 1), SetMask("nw_frag_mask", 1),
       Unwild("IPV6_LABEL"), Unwild("NW_ECN"), Unwild("NW_TTL"),
       SetMask("nw_src_mask", CIDR24_MASK), SetMask("nw_src_mask", NON_CIDR_MASK),
       SetMask("nw_src_mask", UINT32_MAX),
       SetMask("nw_dst_mask", CIDR24_MASK), SetMask("nw_dst_mask", NON_CIDR_MASK),
       SetMask("tp_src_mask", UINT16_MAX), SetMask("tp_src_mask", TP_HIGH_BYTE_MASK),
       SetMask("tp_dst_mask", UINT16_MAX), SetMask("tp_dst_mask", TP_HIGH_BYTE_MASK),
       Unwild("MPLS_LABEL"), Unwild("MPLS_TC"), Unwild("MPLS_STACK"),
       Unwild("VLAN_TPID"), Unwild("VLAN_QINQ_VID"), Unwild("VLAN_QINQ_PCP"),
       Unwild("IN_PORT"), Unwild("NW_PROTO"), Unwild("NW_DSCP"),
       SetMask("vlan_tci_mask", UINT16_MAX), SetMask("ipv6_src_mask", 1) >>

UsableRules ==
    {ApplyChanges(cls_rule_catchall, UsableChanges, p) :
        p \in Picks(Len(UsableChanges), MaxChanges)}

\* The actions drawn: one or two of each class of the switch, and nested lists.
PlainAction(type) == Ofpact(type, FALSE, "", <<>>)
SimpleActions ==
    {PlainAction("OFPACT_OUTPUT"), PlainAction("OFPACT_COPY_TTL_OUT"),
     PlainAction("OFPACT_PUSH_MPLS"), PlainAction("OFPACT_SET_L4_SRC_PORT")}
DrawnActions ==
    SimpleActions \cup
    {PlainAction("OFPACT_LEARN"), PlainAction("OFPACT_RESUBMIT"),
     Ofpact("OFPACT_RESUBMIT", TRUE, "", <<>>),
     PlainAction("OFPACT_REG_LOAD"),
     Ofpact("OFPACT_REG_LOAD", FALSE, "OFPUTIL_OFPAT12_SET_FIELD", <<>>),
     Ofpact("OFPACT_CLEAR_ACTIONS", TRUE, "", <<>>),
     Ofpact("OFPACT_WRITE_ACTIONS", TRUE, "", <<PlainAction("OFPACT_OUTPUT")>>),
     Ofpact("OFPACT_APPLY_ACTIONS", TRUE, "",
            <<PlainAction("OFPACT_SET_L4_SRC_PORT")>>),
     Ofpact("OFPACT_APPLY_ACTIONS", TRUE, "",
            <<PlainAction("OFPACT_POP_VLAN"), PlainAction("OFPACT_SET_L4_DST_PORT")>>)}

DrawnActionLists ==
    {<<>>} \cup {<<a>> : a \in DrawnActions}
           \cup {<<a, b>> : a \in DrawnActions, b \in SimpleActions}

DrawnFlowMods ==
    {FlowMod(cr, table_id, cookie_mask, ofpacts) :
        cr \in {cls_rule_catchall,
                ApplyChange(cls_rule_catchall, SetMask("tun_id_mask", 1))},
        table_id \in {255, 1}, cookie_mask \in {0, 1},
        ofpacts \in DrawnActionLists}

UsableCall(rule) ==
    [called |-> TRUE, rule |-> rule, protocols |-> ofputil_usable_protocols(rule)]

\* The run of ofputil_flow_mod_usable_protocols: the flow mods iterated over
\* so far, the last one, usable_protocols, and where the run stands.
FlowModRun(i, fm, usable_protocols, status) ==
    [i |-> i, fm |-> fm, usable_protocols |-> usable_protocols, status |-> status]

InitUsable ==
    /\ up = NotCalled
    /\ fmu = FlowModRun(0, NotCalled, OFPUTIL_P_ANY, "running")
    /\ oh = Idle /\ full = Idle /\ part = Idle /\ neg = Idle /\ nr = Idle /\ mc = Idle
    /\ wb = Idle
    /\ fsr = Idle
    /\ srp = Idle
    /\ sf = Idle
    /\ dec = Idle
    /\ xid = Idle
    /\ enc = Idle
    /\ pt = Idle
    /\ pull = Idle
    /\ pki = Idle
    /\ fmr = Idle
    /\ pko = Idle
    /\ pd = Idle
    /\ pmr = Idle

\* A call of ofputil_usable_protocols on its own.
UsableProtocols ==
    /\ up = NotCalled /\ fmu # Idle /\ fmu.i = 0
    /\ \E rule \in UsableRules : up' = UsableCall(rule)
    /\ UNCHANGED <<fmu, notUsableVars>>

AfterIteration(run, fm, r) ==
    FlowModRun(run.i + 1, fm, r.protocols,
               IF r.aborted THEN "aborted" ELSE "running")

\* One iteration of the loop over fms[].
FlowModUsableIteration ==
    /\ fmu # Idle /\ fmu.status = "running" /\ fmu.i < MaxFms
    /\ fmu.i = 0 => up = NotCalled
    /\ \E fm \in DrawnFlowMods :
          /\ fmu' = AfterIteration(fmu, fm,
                       FlowModIteration(fmu.usable_protocols, fm,
                           ofputil_usable_protocols_with_actions(fm.ofpacts)))
          /\ up' = UsableCall(fm.cr)
    /\ UNCHANGED notUsableVars

\* The end of the array: assert(usable_protocols); return usable_protocols.
FlowModUsableReturn ==
    /\ fmu # Idle /\ fmu.status = "running"
    /\ fmu' = [fmu EXCEPT !.status = IF fmu.usable_protocols = {} THEN "aborted"
                                     ELSE "returned"]
    /\ UNCHANGED <<up, notUsableVars>>

NextUsable == UsableProtocols \/ FlowModUsableIteration \/ FlowModUsableReturn

SpecUsable == InitUsable /\ [][NextUsable]_vars



(***************************************************************************)
(*                  Properties of usable protocols                         *)
(***************************************************************************)

\* The IPv4 netmasks of the prefix lengths 0..32.
PrefixMasks ==
    {U32(2^16 - 2^(16 - n), 0) : n \in 0..16} \cup
    {U32(UINT16_MAX, 2^16 - 2^(16 - n)) : n \in 0..16}

\* The FWW_* fields that only the extensible match can match.
NxmOnlyFields ==
    {"ARP_SHA", "ARP_THA", "IPV6_LABEL", "NW_ECN", "NW_TTL", "MPLS_LABEL",
     "MPLS_TC", "MPLS_STACK", "VLAN_TPID", "VLAN_QINQ_VID", "VLAN_QINQ_PCP"}

\* The rule uses a capability that only the extensible match has.
UsesNxmOnlyCapability(rule) ==
    \/ {rule.wc.dl_src_mask, rule.wc.dl_dst_mask} \ {ETH_ADDR_ZERO, ETH_ADDR_EXACT} # {}
    \/ NxmOnlyFields \ rule.wc.wildcards # {}
    \/ "DL_TYPE" \notin rule.wc.wildcards /\ rule.flow.dl_type = ETH_TYPE.IPV6
    \/ \E i \in DOMAIN rule.wc.reg_masks : rule.wc.reg_masks[i] # 0
    \/ rule.wc.tun_id_mask # 0
    \/ rule.wc.nw_frag_mask # 0
    \/ {rule.wc.nw_src_mask, rule.wc.nw_dst_mask} \ PrefixMasks # {}
    \/ {rule.wc.tp_src_mask, rule.wc.tp_dst_mask} \ {0, UINT16_MAX} # {}

\* C7: ofputil_usable_protocols never returns the empty set: it returns
\* OFPUTIL_P_NXM_ANY exactly for the rules that use a capability only the
\* extensible match has, and OFPUTIL_P_ANY for all others.
C7_UsableProtocolsOfRule ==
    up # Idle /\ up.called =>
        /\ up.protocols # {}
        /\ up.protocols \in {OFPUTIL_P_ANY, OFPUTIL_P_NXM_ANY}
        /\ up.protocols = OFPUTIL_P_NXM_ANY <=> UsesNxmOnlyCapability(up.rule)

\* A rule that matches a register and nothing else got OFPUTIL_P_NXM_ANY.
C7_Witness ==
    /\ up # Idle /\ up.called
    /\ up.rule.wc.reg_masks[FLOW_N_REGS] # 0
    /\ up.rule.wc.wildcards = FWW_ALL
    /\ up.protocols = OFPUTIL_P_NXM_ANY

\* C8 as stated: ofputil_flow_mod_usable_protocols returns at least one
\* protocol for every array of flow mods: neither the assert(protocols) of
\* the action lists nor the final assert(usable_protocols) fails.
C8_FlowModProtocolsNeverEmpty ==
    fmu # Idle =>
        /\ fmu.status # "aborted"
        /\ fmu.status = "returned" => fmu.usable_protocols # {}



(***************************************************************************)
(*                MATCH CONVERSION AND NORMALIZATION                       *)
(***************************************************************************)

\* VLAN TCI layout, the DSCP bits of nw_tos, and the ICMPv6 types of
\* neighbor discovery.
VLAN == [VID_MASK |-> 4095, CFI |-> 4096, PCP_MASK |-> 57344, PCP_SHIFT |-> 13]
IP_DSCP_MASK == 252
ND == [NEIGHBOR_SOLICIT |-> 135, NEIGHBOR_ADVERT |-> 136]

\* Bytewise AND and complement of Ethernet addresses, a & ~b on integers.
EthAnd(a, b) == [i \in 1..6 |-> BitAnd(a[i], b[i])]
EthNot(a) == [i \in 1..6 |-> 255 - a[i]]
BitClear(a, b) == a - BitAnd(a, b)

\* void cls_rule_zero_wildcarded_fields(rule): every wildcarded bit or field
\* of the flow becomes 0.
cls_rule_zero_wildcarded_fields(rule) ==
    [rule EXCEPT
        !.flow.nw_src = U32And(@, rule.wc.nw_src_mask),
        !.flow.nw_dst = U32And(@, rule.wc.nw_dst_mask),
        !.flow.in_port = IF "IN_PORT" \in rule.wc.wildcards THEN 0 ELSE @,
        !.flow.vlan_tci = BitAnd(@, rule.wc.vlan_tci_mask),
        !.flow.dl_type = IF "DL_TYPE" \in rule.wc.wildcards THEN 0 ELSE @,
        !.flow.tp_src = BitAnd(@, rule.wc.tp_src_mask),
        !.flow.tp_dst = BitAnd(@, rule.wc.tp_dst_mask),
        !.flow.dl_src = EthAnd(@, rule.wc.dl_src_mask),
        !.flow.dl_dst = EthAnd(@, rule.wc.dl_dst_mask),
        !.flow.nw_proto = IF "NW_PROTO" \in rule.wc.wildcards THEN 0 ELSE @,
        !.flow.nw_tos = IF "NW_DSCP" \in rule.wc.wildcards
                        THEN BitClear(@, IP_DSCP_MASK) ELSE @,
        !.flow.vlan_tpid = IF "VLAN_TPID" \in rule.wc.wildcards THEN 0 ELSE @,
        !.flow.vlan_qinq_tci =
            BitClear(BitClear(@, IF "VLAN_QINQ_VID" \in rule.wc.wildcards
                                 THEN VLAN.VID_MASK ELSE 0),
                     IF "VLAN_QINQ_PCP" \in rule.wc.wildcards
                     THEN VLAN.PCP_MASK ELSE 0)]

\* MayMatch without MAY_TP_ADDR for ICMPv6, whose type decides the neighbor
\* discovery fields (a mutation).
may_match_icmpv6_without_tp(flow) ==
    IF flow.dl_type = ETH_TYPE.IP
    THEN {"MAY_NW_PROTO", "MAY_IPVx", "MAY_NW_ADDR"} \cup
         (IF flow.nw_proto \in {IPPROTO.TCP, IPPROTO.UDP, IPPROTO.ICMP}
          THEN {"MAY_TP_ADDR"} ELSE {})
    ELSE IF flow.dl_type = ETH_TYPE.IPV6
    THEN {"MAY_NW_PROTO", "MAY_IPVx", "MAY_IPV6"} \cup
         (IF flow.nw_proto \in {IPPROTO.TCP, IPPROTO.UDP} THEN {"MAY_TP_ADDR"}
          ELSE IF flow.nw_proto = IPPROTO.ICMPV6
          THEN (IF flow.tp_src = ND.NEIGHBOR_SOLICIT
                THEN {"MAY_ND_TARGET", "MAY_ARP_SHA"}
                ELSE IF flow.tp_src = ND.NEIGHBOR_ADVERT
                THEN {"MAY_ND_TARGET", "MAY_ARP_THA"}
                ELSE {})
          ELSE {})
    ELSE IF flow.dl_type = ETH_TYPE.ARP
    THEN {"MAY_NW_PROTO", "MAY_NW_ADDR", "MAY_ARP_SHA", "MAY_ARP_THA"}
    ELSE IF flow.dl_type \in {ETH_TYPE.MPLS, ETH_TYPE.MPLS_MCAST}
    THEN {"MAY_MPLS"}
    ELSE IF /\ flow.vlan_tpid \in {ETH_TYPE.VLAN, ETH_TYPE.VLAN_8021AD}
            /\ flow.vlan_qinq_tci # 0
    THEN {"MAY_VLAN_QINQ"}
    ELSE {}

\* ofputil_normalize_rule: "Figure out what fields may be matched."
MayMatch(flow) ==
    IF flow.dl_type = ETH_TYPE.IP
    THEN {"MAY_NW_PROTO", "MAY_IPVx", "MAY_NW_ADDR"} \cup
         (IF flow.nw_proto \in {IPPROTO.TCP, IPPROTO.UDP, IPPROTO.ICMP}
          THEN {"MAY_TP_ADDR"} ELSE {})
    ELSE IF flow.dl_type = ETH_TYPE.IPV6
    THEN {"MAY_NW_PROTO", "MAY_IPVx", "MAY_IPV6"} \cup
         (IF flow.nw_proto \in {IPPROTO.TCP, IPPROTO.UDP} THEN {"MAY_TP_ADDR"}
          ELSE IF flow.nw_proto = IPPROTO.ICMPV6
          THEN {"MAY_TP_ADDR"} \cup
               (IF flow.tp_src = ND.NEIGHBOR_SOLICIT
                THEN {"MAY_ND_TARGET", "MAY_ARP_SHA"}
                ELSE IF flow.tp_src = ND.NEIGHBOR_ADVERT
                THEN {"MAY_ND_TARGET", "MAY_ARP_THA"}
                ELSE {})
          ELSE {})
    ELSE IF flow.dl_type = ETH_TYPE.ARP
    THEN {"MAY_NW_PROTO", "MAY_NW_ADDR", "MAY_ARP_SHA", "MAY_ARP_THA"}
    ELSE IF flow.dl_type \in {ETH_TYPE.MPLS, ETH_TYPE.MPLS_MCAST}
    THEN {"MAY_MPLS"}
    ELSE IF /\ flow.vlan_tpid \in {ETH_TYPE.VLAN, ETH_TYPE.VLAN_8021AD}
            /\ flow.vlan_qinq_tci # 0
    THEN {"MAY_VLAN_QINQ"}
    ELSE {}

\* ofputil_normalize_rule: "Clear the fields that may not be matched."
ClearedWildcards(wc, may_match) ==
    [wc EXCEPT
        !.nw_src_mask = IF "MAY_NW_ADDR" \notin may_match THEN U32_ZERO ELSE @,
        !.nw_dst_mask = IF "MAY_NW_ADDR" \notin may_match THEN U32_ZERO ELSE @,
        !.tp_src_mask = IF "MAY_TP_ADDR" \notin may_match THEN 0 ELSE @,
        !.tp_dst_mask = IF "MAY_TP_ADDR" \notin may_match THEN 0 ELSE @,
        !.ipv6_src_mask = IF "MAY_IPV6" \notin may_match THEN 0 ELSE @,
        !.ipv6_dst_mask = IF "MAY_IPV6" \notin may_match THEN 0 ELSE @,
        !.nd_target_mask = IF "MAY_ND_TARGET" \notin may_match THEN 0 ELSE @,
        !.wildcards = @ \cup
            (IF "MAY_NW_PROTO" \notin may_match THEN {"NW_PROTO"} ELSE {}) \cup
            (IF "MAY_IPVx" \notin may_match
             THEN {"NW_DSCP", "NW_ECN", "NW_TTL"} ELSE {}) \cup
            (IF "MAY_ARP_SHA" \notin may_match THEN {"ARP_SHA"} ELSE {}) \cup
            (IF "MAY_ARP_THA" \notin may_match THEN {"ARP_THA"} ELSE {}) \cup
            (IF "MAY_IPV6" \notin may_match THEN {"IPV6_LABEL"} ELSE {}) \cup
            (IF "MAY_MPLS" \notin may_match
             THEN {"MPLS_LABEL", "MPLS_TC", "MPLS_STACK"} ELSE {})]

\* ofputil_normalize_rule without the zeroing of the newly wildcarded fields
\* (a mutation).
StoreWildcardsOnly(rule, wc) == [rule EXCEPT !.wc = wc]

\* ofputil_normalize_rule: "if (!flow_wildcards_equal(&wc, &rule->wc))".
StoreWildcards(rule, wc) ==
    IF wc # rule.wc
    THEN cls_rule_zero_wildcarded_fields([rule EXCEPT !.wc = wc])
    ELSE rule

\* void ofputil_normalize_rule(rule)
ofputil_normalize_rule(rule) ==
    StoreWildcards(rule, ClearedWildcards(rule.wc, MayMatch(rule.flow)))



(***************************************************************************)
(* Specification of normalization: a rule is drawn, built by hand from one *)
(* of a few starting rules, and ofputil_normalize_rule is called on it     *)
(* repeatedly.                                                             *)
(***************************************************************************)

\* How many members of its starting rule a drawn rule changes, and how many
\* times it is normalized.
MaxRuleChanges == 2
MaxNormalize == 2

IP_ADDR == U32(2560, 1)

\* The starting rules: the catch-all; TCP over IPv4 with exact addresses and
\* ports; the same flow with dl_type left wildcarded; ARP; IPv6 neighbor
\* solicitation; MPLS.
StartingRules ==
    << <<>>,
       << Unwild("DL_TYPE"), SetFlow("dl_type", ETH_TYPE.IP),
          Unwild("NW_PROTO"), SetFlow("nw_proto", IPPROTO.TCP),
          SetMask("nw_src_mask", UINT32_MAX), SetFlow("nw_src", IP_ADDR),
          SetMask("tp_src_mask", UINT16_MAX), SetFlow("tp_src", 80) >>,
       << SetFlow("dl_type", ETH_TYPE.IP),
          Unwild("NW_PROTO"), SetFlow("nw_proto", IPPROTO.TCP),
          SetMask("nw_src_mask", UINT32_MAX), SetFlow("nw_src", IP_ADDR),
          SetMask("tp_src_mask", UINT16_MAX), SetFlow("tp_src", 80) >>,
       << Unwild("DL_TYPE"), SetFlow("dl_type", ETH_TYPE.ARP),
          Unwild("ARP_SHA"),
          SetMask("nw_dst_mask", CIDR24_MASK) >>,
       << Unwild("DL_TYPE"), SetFlow("dl_type", ETH_TYPE.IPV6),
          Unwild("NW_PROTO"), SetFlow("nw_proto", IPPROTO.ICMPV6),
          SetMask("tp_src_mask", UINT16_MAX),
          SetFlow("tp_src", ND.NEIGHBOR_SOLICIT),
          SetMask("nd_target_mask", 1), Unwild("ARP_SHA") >>,
       << Unwild("DL_TYPE"), SetFlow("dl_type", ETH_TYPE.MPLS),
          Unwild("MPLS_LABEL") >> >>

RuleChanges ==
    << Unwild("DL_TYPE"), Unwild("NW_PROTO"), Unwild("NW_DSCP"),
       Unwild("NW_ECN"), Unwild("ARP_SHA"), Unwild("ARP_THA"),
       Unwild("IPV6_LABEL"), Unwild("MPLS_TC"), Unwild("VLAN_TPID"),
       Unwild("VLAN_QINQ_VID"),
       SetMask("nw_src_mask", CIDR24_MASK), SetMask("nw_dst_mask", UINT32_MAX),
       SetMask("tp_src_mask", UINT16_MAX), SetMask("tp_dst_mask", UINT16_MAX),
       SetMask("ipv6_src_mask", 1), SetMask("nd_target_mask", 1),
       SetMask("vlan_tci_mask", UINT16_MAX),
       SetFlow("dl_type", ETH_TYPE.IP), SetFlow("dl_type", ETH_TYPE.ARP),
       SetFlow("dl_type", ETH_TYPE.IPV6), SetFlow("dl_type", ETH_TYPE.MPLS_MCAST),
       SetFlow("nw_proto", IPPROTO.UDP), SetFlow("nw_proto", IPPROTO.ICMPV6),
       SetFlow("nw_proto", IPPROTO.SCTP),
       SetFlow("tp_src", ND.NEIGHBOR_ADVERT), SetFlow("tp_dst", 443),
       SetFlow("nw_dst", IP_ADDR), SetFlow("nw_tos", UINT16_MAX \div 2^8),
       SetFlow("vlan_tpid", ETH_TYPE.VLAN_8021AD), SetFlow("vlan_qinq_tci", 5) >>

StartingRule(i) ==
    ApplyChanges(cls_rule_catchall, StartingRules[i],
                 [j \in 1..Len(StartingRules[i]) |-> j])

DrawnRules ==
    {ApplyChanges(StartingRule(i), RuleChanges, p) :
        i \in 1..Len(StartingRules),
        p \in Picks(Len(RuleChanges), MaxRuleChanges)}

\* given: the rule as drawn; rule: the rule, normalized in place; after: the
\* rule after each call.
NormalizeRun(given, rule, after) ==
    [given |-> given, rule |-> rule, after |-> after]

InitNormalize ==
    /\ \E r \in DrawnRules : nr = NormalizeRun(r, r, <<>>)
    /\ oh = Idle /\ full = Idle /\ part = Idle
    /\ neg = Idle /\ up = Idle /\ fmu = Idle /\ mc = Idle
    /\ wb = Idle
    /\ fsr = Idle
    /\ srp = Idle
    /\ sf = Idle
    /\ dec = Idle
    /\ xid = Idle
    /\ enc = Idle
    /\ pt = Idle
    /\ pull = Idle
    /\ pki = Idle
    /\ fmr = Idle
    /\ pko = Idle
    /\ pd = Idle
    /\ pmr = Idle

AfterNormalize(run, rule) ==
    NormalizeRun(run.given, rule, Append(run.after, rule))

NormalizeRule ==
    /\ nr # Idle /\ Len(nr.after) < MaxNormalize
    /\ nr' = AfterNormalize(nr, ofputil_normalize_rule(nr.rule))
    /\ UNCHANGED notNormalizeVars

NextNormalize == NormalizeRule

SpecNormalize == InitNormalize /\ [][NextNormalize]_vars

(***************************************************************************)
(* Properties of normalization                                             *)
(***************************************************************************)

\* Every call after the first leaves the flow and the wildcards as the first
\* call left them.
SecondCallChangesNothing(after) ==
    \A i \in 2..Len(after) :
        after[i].flow = after[1].flow /\ after[i].wc = after[1].wc

\* The wildcarded fields of the rule are zero, as the classifier keeps them.
WildcardedFieldsZero(rule) == cls_rule_zero_wildcarded_fields(rule) = rule

\* C9 (as stated): ofputil_normalize_rule is idempotent for all rules,
\* including rules whose flow holds non-zero values in wildcarded fields:
\* applying it twice yields the same flow values and wildcards as applying
\* it once.
C9_IdempotentForAllRules ==
    nr # Idle => SecondCallChangesNothing(nr.after)

\* C9 (amended): ofputil_normalize_rule is idempotent for the rules whose
\* wildcarded flow fields are zero: applying it twice yields the same flow
\* values and wildcards as applying it once.
C9_IdempotentWhenWildcardedFieldsZero ==
    nr # Idle /\ WildcardedFieldsZero(nr.given) =>
        SecondCallChangesNothing(nr.after)

\* A rule with zero wildcarded fields that the first call changed has been
\* normalized a second time.
C9_Witness ==
    /\ nr # Idle /\ WildcardedFieldsZero(nr.given)
    /\ Len(nr.after) >= 2
    /\ nr.after[1] # nr.given
    /\ nr.after[1].flow # nr.given.flow


(***************************************************************************)
(*                 OPENFLOW 1.0 MATCH CONVERSION                           *)
(***************************************************************************)

\* enum ofp10_flow_wildcards, and the dl_vlan and dl_type values with a
\* special meaning.
OFPFW10 ==
    [IN_PORT |-> 2^0, DL_VLAN |-> 2^1, DL_SRC |-> 2^2, DL_DST |-> 2^3,
     DL_TYPE |-> 2^4, NW_PROTO |-> 2^5, TP_SRC |-> 2^6, TP_DST |-> 2^7,
     NW_SRC_SHIFT |-> 8, NW_DST_SHIFT |-> 14,
     DL_VLAN_PCP |-> 2^20, NW_TOS |-> 2^21, ALL |-> 2^22 - 1]
OFP10_VLAN_NONE == UINT16_MAX
OFP_DL_TYPE_NOT_ETH_TYPE == 1535
FLOW_DL_TYPE_NONE == 1535

\* w & bit != 0 for a single-bit 'bit'; a | b; w >> n.
Has(w, bit) == (w \div bit) % 2 = 1
BitOr(a, b) == a + b - BitAnd(a, b)
Shr(w, n) == w \div 2^n

\* The number of trailing 0-bits of the 'width'-bit value x.
RECURSIVE Ctz(_, _)
Ctz(x, width) ==
    IF width = 0 \/ x % 2 = 1 THEN 0 ELSE 1 + Ctz(x \div 2, width - 1)

\* int ip_count_cidr_bits(netmask): the number of 1-bits of a CIDR netmask.
ip_count_cidr_bits(netmask) ==
    IF netmask[2] # 0 THEN 32 - Ctz(netmask[2], 16)
    ELSE 16 - Ctz(netmask[1], 16)

\* The 32-bit value (1u << n) - 1, for n < 32.
LowOnes(n) ==
    IF n <= 16 THEN U32(0, 2^n - 1) ELSE U32(2^(n - 16) - 1, UINT16_MAX)

\* ofputil_wcbits_to_netmask without "wcbits &= 0x3f" (a mutation).
wcbits_to_netmask_unmasked(wcbits) ==
    IF wcbits < 32 THEN U32Not(LowOnes(wcbits)) ELSE U32_ZERO

\* ovs_be32 ofputil_wcbits_to_netmask(int wcbits)
ofputil_wcbits_to_netmask(wcbits) ==
    IF wcbits % 64 < 32 THEN U32Not(LowOnes(wcbits % 64)) ELSE U32_ZERO

\* ofputil_netmask_to_wcbits in the usual convention, where /24 stands for 8
\* wildcarded bits (a mutation).
netmask_to_cidr_bits(netmask) == ip_count_cidr_bits(netmask)

\* int ofputil_netmask_to_wcbits(ovs_be32 netmask)
ofputil_netmask_to_wcbits(netmask) == 32 - ip_count_cidr_bits(netmask)

\* WC_INVARIANT_LIST: the FWW_* bits that are OFPFW10_* bits too.
WC_INVARIANTS == {"IN_PORT", "DL_TYPE", "NW_PROTO"}

\* ofputil_dl_type_to_openflow(flow_dl_type), and back.
ofputil_dl_type_to_openflow(flow_dl_type) ==
    IF flow_dl_type = FLOW_DL_TYPE_NONE THEN OFP_DL_TYPE_NOT_ETH_TYPE
    ELSE flow_dl_type

ofputil_dl_type_from_openflow(ofp_dl_type) ==
    IF ofp_dl_type = OFP_DL_TYPE_NOT_ETH_TYPE THEN FLOW_DL_TYPE_NONE
    ELSE ofp_dl_type

\* void ofputil_wildcard_from_ofpfw10(uint32_t ofpfw, struct flow_wildcards *wc)
ofputil_wildcard_from_ofpfw10(ofpfw) ==
    [flow_wildcards_catchall EXCEPT
        !.wildcards =
            {n \in WC_INVARIANTS : Has(ofpfw, OFPFW10[n])} \cup
            {"ARP_SHA", "ARP_THA", "NW_ECN", "NW_TTL", "IPV6_LABEL",
             "MPLS_LABEL", "MPLS_TC", "MPLS_STACK", "VLAN_TPID",
             "VLAN_QINQ_VID", "VLAN_QINQ_PCP"} \cup
            (IF Has(ofpfw, OFPFW10.NW_TOS) THEN {"NW_DSCP"} ELSE {}),
        !.nw_src_mask =
            ofputil_wcbits_to_netmask(Shr(ofpfw, OFPFW10.NW_SRC_SHIFT)),
        !.nw_dst_mask =
            ofputil_wcbits_to_netmask(Shr(ofpfw, OFPFW10.NW_DST_SHIFT)),
        !.tp_src_mask = IF Has(ofpfw, OFPFW10.TP_SRC) THEN 0 ELSE UINT16_MAX,
        !.tp_dst_mask = IF Has(ofpfw, OFPFW10.TP_DST) THEN 0 ELSE UINT16_MAX,
        !.dl_src_mask = IF Has(ofpfw, OFPFW10.DL_SRC) THEN ETH_ADDR_ZERO
                        ELSE ETH_ADDR_EXACT,
        !.dl_dst_mask = IF Has(ofpfw, OFPFW10.DL_DST) THEN ETH_ADDR_ZERO
                        ELSE ETH_ADDR_EXACT,
        !.vlan_tci_mask =
            BitOr(IF Has(ofpfw, OFPFW10.DL_VLAN_PCP) THEN 0
                  ELSE VLAN.PCP_MASK + VLAN.CFI,
                  IF Has(ofpfw, OFPFW10.DL_VLAN) THEN 0
                  ELSE VLAN.VID_MASK + VLAN.CFI)]

\* VlanFromOfp10 without the CFI bit in the TCI (a mutation).
vlan_from_ofp10_without_cfi(rule, match, ofpfw) ==
    IF ~Has(ofpfw, OFPFW10.DL_VLAN) /\ match.dl_vlan = OFP10_VLAN_NONE
    THEN [rule EXCEPT !.flow.vlan_tci = 0, !.wc.vlan_tci_mask = UINT16_MAX]
    ELSE [rule EXCEPT !.flow.vlan_tci =
            BitAnd(BitOr(BitAnd(match.dl_vlan, VLAN.VID_MASK),
                         BitAnd(match.dl_vlan_pcp * 2^(VLAN.PCP_SHIFT),
                                VLAN.PCP_MASK)),
                   rule.wc.vlan_tci_mask)]

\* ofputil_cls_rule_from_ofp10_match: "Translate VLANs."
VlanFromOfp10(rule, match, ofpfw) ==
    IF ~Has(ofpfw, OFPFW10.DL_VLAN) /\ match.dl_vlan = OFP10_VLAN_NONE
    THEN [rule EXCEPT !.flow.vlan_tci = 0, !.wc.vlan_tci_mask = UINT16_MAX]
    ELSE [rule EXCEPT !.flow.vlan_tci =
            BitAnd(BitOr(BitOr(BitAnd(match.dl_vlan, VLAN.VID_MASK),
                               BitAnd(match.dl_vlan_pcp * 2^(VLAN.PCP_SHIFT),
                                      VLAN.PCP_MASK)),
                         VLAN.CFI),
                   rule.wc.vlan_tci_mask)]

\* ofputil_cls_rule_from_ofp10_match: rule->priority, rule->wc and "most of
\* rule->flow".
FieldsFromOfp10(match, priority, ofpfw) ==
    [flow |-> [cls_rule_catchall.flow EXCEPT
                  !.nw_src = match.nw_src,
                  !.nw_dst = match.nw_dst,
                  !.in_port = match.in_port,
                  !.dl_type = ofputil_dl_type_from_openflow(match.dl_type),
                  !.tp_src = match.tp_src,
                  !.tp_dst = match.tp_dst,
                  !.dl_src = match.dl_src,
                  !.dl_dst = match.dl_dst,
                  !.nw_tos = BitAnd(match.nw_tos, IP_DSCP_MASK),
                  !.nw_proto = match.nw_proto],
     wc |-> ofputil_wildcard_from_ofpfw10(ofpfw),
     priority |-> IF ofpfw = 0 THEN UINT16_MAX ELSE priority]

\* void ofputil_cls_rule_from_ofp10_match(match, priority, rule)
ofputil_cls_rule_from_ofp10_match(match, priority) ==
    cls_rule_zero_wildcarded_fields(
        VlanFromOfp10(
            FieldsFromOfp10(match, priority, match.wildcards % (OFPFW10.ALL + 1)),
            match, match.wildcards % (OFPFW10.ALL + 1)))

\* vlan_tci_to_vid(), vlan_tci_to_pcp()
vlan_tci_to_vid(vlan_tci) == BitAnd(vlan_tci, VLAN.VID_MASK)
vlan_tci_to_pcp(vlan_tci) == Shr(BitAnd(vlan_tci, VLAN.PCP_MASK), VLAN.PCP_SHIFT)

\* ofputil_cls_rule_to_ofp10_match: "Translate VLANs": the wildcard bits, the
\* dl_vlan and the dl_vlan_pcp of the match.
VlanToOfp10(rule) ==
    IF rule.wc.vlan_tci_mask = 0
    THEN [ofpfw |-> OFPFW10.DL_VLAN + OFPFW10.DL_VLAN_PCP,
          dl_vlan |-> 0, dl_vlan_pcp |-> 0]
    ELSE IF /\ BitAnd(rule.wc.vlan_tci_mask, VLAN.CFI) # 0
            /\ BitAnd(rule.flow.vlan_tci, VLAN.CFI) = 0
    THEN [ofpfw |-> 0, dl_vlan |-> OFP10_VLAN_NONE, dl_vlan_pcp |-> 0]
    ELSE [ofpfw |->
            (IF BitAnd(rule.wc.vlan_tci_mask, VLAN.VID_MASK) = 0
             THEN OFPFW10.DL_VLAN ELSE 0) +
            (IF BitAnd(rule.wc.vlan_tci_mask, VLAN.PCP_MASK) = 0
             THEN OFPFW10.DL_VLAN_PCP ELSE 0),
          dl_vlan |->
            IF BitAnd(rule.wc.vlan_tci_mask, VLAN.VID_MASK) = 0 THEN 0
            ELSE vlan_tci_to_vid(rule.flow.vlan_tci),
          dl_vlan_pcp |->
            IF BitAnd(rule.wc.vlan_tci_mask, VLAN.PCP_MASK) = 0 THEN 0
            ELSE vlan_tci_to_pcp(rule.flow.vlan_tci)]

\* ofputil_cls_rule_to_ofp10_match: "Figure out most OpenFlow wildcards."
WildcardsToOfp10(wc) ==
    (IF "IN_PORT" \in wc.wildcards THEN OFPFW10.IN_PORT ELSE 0) +
    (IF "DL_TYPE" \in wc.wildcards THEN OFPFW10.DL_TYPE ELSE 0) +
    (IF "NW_PROTO" \in wc.wildcards THEN OFPFW10.NW_PROTO ELSE 0) +
    ofputil_netmask_to_wcbits(wc.nw_src_mask) * 2^(OFPFW10.NW_SRC_SHIFT) +
    ofputil_netmask_to_wcbits(wc.nw_dst_mask) * 2^(OFPFW10.NW_DST_SHIFT) +
    (IF "NW_DSCP" \in wc.wildcards THEN OFPFW10.NW_TOS ELSE 0) +
    (IF wc.tp_src_mask = 0 THEN OFPFW10.TP_SRC ELSE 0) +
    (IF wc.tp_dst_mask = 0 THEN OFPFW10.TP_DST ELSE 0) +
    (IF wc.dl_src_mask = ETH_ADDR_ZERO THEN OFPFW10.DL_SRC ELSE 0) +
    (IF wc.dl_dst_mask = ETH_ADDR_ZERO THEN OFPFW10.DL_DST ELSE 0)

Ofp10Match(rule, ofpfw, vlan) ==
    [wildcards |-> ofpfw + vlan.ofpfw,
     in_port |-> rule.flow.in_port,
     dl_src |-> rule.flow.dl_src,
     dl_dst |-> rule.flow.dl_dst,
     dl_vlan |-> vlan.dl_vlan,
     dl_vlan_pcp |-> vlan.dl_vlan_pcp,
     dl_type |-> ofputil_dl_type_to_openflow(rule.flow.dl_type),
     nw_src |-> rule.flow.nw_src,
     nw_dst |-> rule.flow.nw_dst,
     nw_tos |-> BitAnd(rule.flow.nw_tos, IP_DSCP_MASK),
     nw_proto |-> rule.flow.nw_proto,
     tp_src |-> rule.flow.tp_src,
     tp_dst |-> rule.flow.tp_dst]

\* void ofputil_cls_rule_to_ofp10_match(rule, match)
ofputil_cls_rule_to_ofp10_match(rule) ==
    Ofp10Match(rule, WildcardsToOfp10(rule.wc), VlanToOfp10(rule))


(***************************************************************************)
(*             OPENFLOW 1.1 STANDARD MATCH CONVERSION                      *)
(***************************************************************************)

\* enum ofp11_flow_match_fields, and the dl_vlan values with a special
\* meaning.
OFPFW11 ==
    [IN_PORT |-> 2^0, DL_VLAN |-> 2^1, DL_VLAN_PCP |-> 2^2, DL_TYPE |-> 2^3,
     NW_TOS |-> 2^4, NW_PROTO |-> 2^5, TP_SRC |-> 2^6, TP_DST |-> 2^7,
     MPLS_LABEL |-> 2^8, MPLS_TC |-> 2^9]
OFPVID11 == [ANY |-> UINT16_MAX - 1, NONE |-> UINT16_MAX]
UINT64_MAX == <<UINT16_MAX, UINT16_MAX, UINT16_MAX, UINT16_MAX>>

\* OFPP_MAX; an OpenFlow 1.1 port number p is >= OFPP11_MAX when its high
\* half is all-ones and its low half is >= OFPP_MAX, and then
\* p - OFPP11_OFFSET is its low half.
OFPP_MAX == UINT16_MAX - 255

\* enum ofperr ofputil_port_from_ofp11(ofp11_port, *ofp10_port)
ofputil_port_from_ofp11(ofp11_port) ==
    IF ofp11_port[1] = 0 /\ ofp11_port[2] < OFPP_MAX
    THEN [error |-> OK, ofp10_port |-> ofp11_port[2]]
    ELSE IF ofp11_port[1] = UINT16_MAX /\ ofp11_port[2] >= OFPP_MAX
    THEN [error |-> OK, ofp10_port |-> ofp11_port[2]]
    ELSE [error |-> "OFPERR_OFPBAC_BAD_OUT_PORT", ofp10_port |-> 0]

\* The mutation: the port is sent as it is, the reserved ports included.
port_to_ofp11_unmapped(ofp10_port) == U32(0, ofp10_port)

\* ovs_be32 ofputil_port_to_ofp11(uint16_t ofp10_port)
ofputil_port_to_ofp11(ofp10_port) ==
    IF ofp10_port < OFPP_MAX THEN U32(0, ofp10_port)
    ELSE U32(UINT16_MAX, ofp10_port)

\* The outcome of a step of ofputil_cls_rule_from_ofp11_match: the error
\* returned, or OK to go on, and the rule so far.
Go(rule) == [error |-> OK, rule |-> rule]
Return(error, rule) == [error |-> error, rule |-> rule]

\* ofputil_cls_rule_from_ofp11_match, in_port
InPortFromOfp11(rule, match, wc) ==
    IF Has(wc, OFPFW11.IN_PORT) THEN Go(rule)
    ELSE IF ofputil_port_from_ofp11(match.in_port).error # OK
    THEN Return("OFPERR_OFPBMC_BAD_VALUE", rule)
    ELSE Go([rule EXCEPT
               !.wc.wildcards = @ \ {"IN_PORT"},
               !.flow.in_port = ofputil_port_from_ofp11(match.in_port).ofp10_port])

\* ofputil_cls_rule_from_ofp11_match, dl_src and dl_dst
DlAddrsFromOfp11(r, match) ==
    IF r.error # OK THEN r
    ELSE Go([r.rule EXCEPT
               !.flow.dl_src = EthAnd(match.dl_src, EthNot(match.dl_src_mask)),
               !.wc.dl_src_mask = EthNot(match.dl_src_mask),
               !.flow.dl_dst = EthAnd(match.dl_dst, EthNot(match.dl_dst_mask)),
               !.wc.dl_dst_mask = EthNot(match.dl_dst_mask)])

\* ofputil_cls_rule_from_ofp11_match, dl_vlan_pcp of a tagged match
VlanPcpFromOfp11(rule, match, wc) ==
    IF Has(wc, OFPFW11.DL_VLAN_PCP) THEN Go(rule)
    ELSE IF match.dl_vlan_pcp <= 7
    THEN Go([rule EXCEPT
               !.flow.vlan_tci = BitOr(@, match.dl_vlan_pcp * 2^(VLAN.PCP_SHIFT)),
               !.wc.vlan_tci_mask = BitOr(@, VLAN.PCP_MASK)])
    ELSE Return("OFPERR_OFPBMC_BAD_VALUE", rule)

\* ofputil_cls_rule_from_ofp11_match, dl_vlan
VlanFromOfp11(r, match, wc) ==
    IF r.error # OK \/ Has(wc, OFPFW11.DL_VLAN) THEN r
    ELSE IF match.dl_vlan = OFPVID11.NONE
    THEN Go([r.rule EXCEPT !.flow.vlan_tci = 0,
                           !.wc.vlan_tci_mask = UINT16_MAX])
    ELSE IF match.dl_vlan = OFPVID11.ANY
    THEN VlanPcpFromOfp11([r.rule EXCEPT !.flow.vlan_tci = VLAN.CFI,
                                         !.wc.vlan_tci_mask = VLAN.CFI],
                          match, wc)
    ELSE IF match.dl_vlan < 4096
    THEN VlanPcpFromOfp11(
            [r.rule EXCEPT !.flow.vlan_tci = BitOr(VLAN.CFI, match.dl_vlan),
                           !.wc.vlan_tci_mask = VLAN.CFI + VLAN.VID_MASK],
            match, wc)
    ELSE Return("OFPERR_OFPBMC_BAD_VALUE", r.rule)

\* ofputil_cls_rule_from_ofp11_match, dl_type
DlTypeFromOfp11(r, match, wc) ==
    IF r.error # OK \/ Has(wc, OFPFW11.DL_TYPE) THEN r
    ELSE Go([r.rule EXCEPT
               !.wc.wildcards = @ \ {"DL_TYPE"},
               !.flow.dl_type = ofputil_dl_type_from_openflow(match.dl_type)])

\* ofputil_cls_rule_from_ofp11_match, nw_tos
NwTosFromOfp11(r, match, wc) ==
    IF r.error # OK THEN r
    ELSE IF r.rule.flow.dl_type = ETH_TYPE.IP /\ ~Has(wc, OFPFW11.NW_TOS)
    THEN IF BitClear(match.nw_tos, IP_DSCP_MASK) # 0
         THEN Return("OFPERR_OFPBMC_BAD_VALUE", r.rule)
         ELSE Go([r.rule EXCEPT
                    !.wc.wildcards = @ \ {"NW_DSCP"},
                    !.flow.nw_tos = BitOr(BitClear(@, IP_DSCP_MASK),
                                          BitAnd(match.nw_tos, IP_DSCP_MASK))])
    ELSE r

\* ofputil_cls_rule_from_ofp11_match, nw_proto, nw_src and nw_dst
NwFromOfp11(r, match, wc) ==
    IF r.error # OK THEN r
    ELSE IF r.rule.flow.dl_type \in {ETH_TYPE.IP, ETH_TYPE.ARP}
    THEN Go([r.rule EXCEPT
               !.wc.wildcards =
                   IF Has(wc, OFPFW11.NW_PROTO) THEN @ ELSE @ \ {"NW_PROTO"},
               !.flow.nw_proto =
                   IF Has(wc, OFPFW11.NW_PROTO) THEN @ ELSE match.nw_proto,
               !.flow.nw_src = U32And(match.nw_src, U32Not(match.nw_src_mask)),
               !.wc.nw_src_mask = U32Not(match.nw_src_mask),
               !.flow.nw_dst = U32And(match.nw_dst, U32Not(match.nw_dst_mask)),
               !.wc.nw_dst_mask = U32Not(match.nw_dst_mask)])
    ELSE r

\* ofputil_cls_rule_from_ofp11_match, tp_src or tp_dst of ICMP: the type or
\* the code.
IcmpFromOfp11(r, wildcarded, value, field, mask) ==
    IF r.error # OK \/ wildcarded THEN r
    ELSE IF value < 256
    THEN Go([r.rule EXCEPT !.wc[mask] = UINT16_MAX, !.flow[field] = value])
    ELSE Return("OFPERR_OFPBMC_BAD_FIELD", r.rule)

\* The mutation: SCTP is taken for one more protocol without ports.
tp_from_ofp11_sctp_ignored(r, match, wc) ==
    IF r.error # OK THEN r
    ELSE IF /\ r.rule.flow.dl_type = ETH_TYPE.IP
            /\ ~(Has(wc, OFPFW11.TP_SRC) /\ Has(wc, OFPFW11.TP_DST))
            /\ r.rule.flow.nw_proto = IPPROTO.ICMP
    THEN IcmpFromOfp11(
             IcmpFromOfp11(r, Has(wc, OFPFW11.TP_SRC), match.tp_src,
                           "tp_src", "tp_src_mask"),
             Has(wc, OFPFW11.TP_DST), match.tp_dst, "tp_dst", "tp_dst_mask")
    ELSE IF /\ r.rule.flow.dl_type = ETH_TYPE.IP
            /\ r.rule.flow.nw_proto \in {IPPROTO.TCP, IPPROTO.UDP}
    THEN Go([r.rule EXCEPT
               !.wc.tp_src_mask =
                   IF Has(wc, OFPFW11.TP_SRC) THEN @ ELSE UINT16_MAX,
               !.flow.tp_src =
                   IF Has(wc, OFPFW11.TP_SRC) THEN @ ELSE match.tp_src,
               !.wc.tp_dst_mask =
                   IF Has(wc, OFPFW11.TP_DST) THEN @ ELSE UINT16_MAX,
               !.flow.tp_dst =
                   IF Has(wc, OFPFW11.TP_DST) THEN @ ELSE match.tp_dst])
    ELSE r

\* ofputil_cls_rule_from_ofp11_match, tp_src and tp_dst
TpFromOfp11(r, match, wc) ==
    IF r.error # OK THEN r
    ELSE IF /\ r.rule.flow.dl_type = ETH_TYPE.IP
            /\ ~(Has(wc, OFPFW11.TP_SRC) /\ Has(wc, OFPFW11.TP_DST))
    THEN CASE r.rule.flow.nw_proto = IPPROTO.ICMP ->
                IcmpFromOfp11(
                    IcmpFromOfp11(r, Has(wc, OFPFW11.TP_SRC), match.tp_src,
                                  "tp_src", "tp_src_mask"),
                    Has(wc, OFPFW11.TP_DST), match.tp_dst,
                    "tp_dst", "tp_dst_mask")
           [] r.rule.flow.nw_proto \in {IPPROTO.TCP, IPPROTO.UDP} ->
                Go([r.rule EXCEPT
                      !.wc.tp_src_mask =
                          IF Has(wc, OFPFW11.TP_SRC) THEN @ ELSE UINT16_MAX,
                      !.flow.tp_src =
                          IF Has(wc, OFPFW11.TP_SRC) THEN @ ELSE match.tp_src,
                      !.wc.tp_dst_mask =
                          IF Has(wc, OFPFW11.TP_DST) THEN @ ELSE UINT16_MAX,
                      !.flow.tp_dst =
                          IF Has(wc, OFPFW11.TP_DST) THEN @ ELSE match.tp_dst])
           [] r.rule.flow.nw_proto = IPPROTO.SCTP ->
                Return("OFPERR_OFPBMC_BAD_FIELD", r.rule)
           [] OTHER -> r
    ELSE r

\* ofputil_cls_rule_from_ofp11_match, MPLS and metadata
MplsFromOfp11(r, match, wc) ==
    IF r.error # OK THEN r
    ELSE IF /\ r.rule.flow.dl_type \in {ETH_TYPE.MPLS, ETH_TYPE.MPLS_MCAST}
            /\ ~(Has(wc, OFPFW11.MPLS_LABEL) /\ Has(wc, OFPFW11.MPLS_TC))
    THEN Return("OFPERR_OFPBMC_BAD_TAG", r.rule)
    ELSE IF match.metadata_mask # UINT64_MAX
    THEN Return("OFPERR_OFPBMC_BAD_FIELD", r.rule)
    ELSE r

\* The steps of ofputil_cls_rule_from_ofp11_match in their order, with the
\* 16 low bits of the wildcards in 'wc'.
StepsFromOfp11(rule, match, wc) ==
    MplsFromOfp11(
        TpFromOfp11(
            NwFromOfp11(
                NwTosFromOfp11(
                    DlTypeFromOfp11(
                        VlanFromOfp11(
                            DlAddrsFromOfp11(InPortFromOfp11(rule, match, wc),
                                             match),
                            match, wc),
                        match, wc),
                    match, wc),
                match, wc),
            match, wc),
        match, wc)

\* enum ofperr ofputil_cls_rule_from_ofp11_match(match, priority, rule)
ofputil_cls_rule_from_ofp11_match(match, priority) ==
    StepsFromOfp11([cls_rule_catchall EXCEPT !.priority = priority],
                   match, match.wildcards % 2^16)

\* struct ofp11_match after memset(match, 0, sizeof *match).
ofp11_match_zero ==
    [wildcards |-> 0, in_port |-> U32_ZERO,
     dl_src |-> ETH_ADDR_ZERO, dl_src_mask |-> ETH_ADDR_ZERO,
     dl_dst |-> ETH_ADDR_ZERO, dl_dst_mask |-> ETH_ADDR_ZERO,
     dl_vlan |-> 0, dl_vlan_pcp |-> 0, dl_type |-> 0,
     nw_tos |-> 0, nw_proto |-> 0,
     nw_src |-> U32_ZERO, nw_src_mask |-> U32_ZERO,
     nw_dst |-> U32_ZERO, nw_dst_mask |-> U32_ZERO,
     tp_src |-> 0, tp_dst |-> 0, metadata_mask |-> <<0, 0, 0, 0>>]

\* ofputil_cls_rule_to_ofp11_match, VLAN: the wildcard bits, the dl_vlan and
\* the dl_vlan_pcp of the match.
VlanToOfp11(rule) ==
    IF rule.wc.vlan_tci_mask = 0
    THEN [wc |-> OFPFW11.DL_VLAN + OFPFW11.DL_VLAN_PCP,
          dl_vlan |-> 0, dl_vlan_pcp |-> 0]
    ELSE IF /\ BitAnd(rule.wc.vlan_tci_mask, VLAN.CFI) # 0
            /\ BitAnd(rule.flow.vlan_tci, VLAN.CFI) = 0
    THEN [wc |-> OFPFW11.DL_VLAN_PCP,
          dl_vlan |-> OFPVID11.NONE, dl_vlan_pcp |-> 0]
    ELSE [wc |-> IF BitAnd(rule.wc.vlan_tci_mask, VLAN.PCP_MASK) = 0
                 THEN OFPFW11.DL_VLAN_PCP ELSE 0,
          dl_vlan |->
            IF BitAnd(rule.wc.vlan_tci_mask, VLAN.VID_MASK) = 0
            THEN OFPVID11.ANY
            ELSE vlan_tci_to_vid(rule.flow.vlan_tci),
          dl_vlan_pcp |->
            IF BitAnd(rule.wc.vlan_tci_mask, VLAN.PCP_MASK) = 0 THEN 0
            ELSE vlan_tci_to_pcp(rule.flow.vlan_tci)]

\* ofputil_cls_rule_to_ofp11_match, the wildcard bits other than the VLAN's.
WildcardsToOfp11(rule) ==
    (IF "IN_PORT" \in rule.wc.wildcards THEN OFPFW11.IN_PORT ELSE 0) +
    (IF "DL_TYPE" \in rule.wc.wildcards THEN OFPFW11.DL_TYPE ELSE 0) +
    (IF "NW_DSCP" \in rule.wc.wildcards THEN OFPFW11.NW_TOS ELSE 0) +
    (IF "NW_PROTO" \in rule.wc.wildcards THEN OFPFW11.NW_PROTO ELSE 0) +
    (IF rule.wc.tp_src_mask = 0 THEN OFPFW11.TP_SRC ELSE 0) +
    (IF rule.wc.tp_dst_mask = 0 THEN OFPFW11.TP_DST ELSE 0) +
    OFPFW11.MPLS_LABEL + OFPFW11.MPLS_TC

Ofp11Match(rule, wc, vlan) ==
    [ofp11_match_zero EXCEPT
        !.wildcards = wc + vlan.wc,
        !.in_port = IF "IN_PORT" \in rule.wc.wildcards THEN @
                    ELSE ofputil_port_to_ofp11(rule.flow.in_port),
        !.dl_src = rule.flow.dl_src,
        !.dl_src_mask = EthNot(rule.wc.dl_src_mask),
        !.dl_dst = rule.flow.dl_dst,
        !.dl_dst_mask = EthNot(rule.wc.dl_dst_mask),
        !.dl_vlan = vlan.dl_vlan,
        !.dl_vlan_pcp = vlan.dl_vlan_pcp,
        !.dl_type = IF "DL_TYPE" \in rule.wc.wildcards THEN @
                    ELSE ofputil_dl_type_to_openflow(rule.flow.dl_type),
        !.nw_tos = IF "NW_DSCP" \in rule.wc.wildcards THEN @
                   ELSE BitAnd(rule.flow.nw_tos, IP_DSCP_MASK),
        !.nw_proto = IF "NW_PROTO" \in rule.wc.wildcards THEN @
                     ELSE rule.flow.nw_proto,
        !.nw_src = rule.flow.nw_src,
        !.nw_src_mask = U32Not(rule.wc.nw_src_mask),
        !.nw_dst = rule.flow.nw_dst,
        !.nw_dst_mask = U32Not(rule.wc.nw_dst_mask),
        !.tp_src = IF rule.wc.tp_src_mask = 0 THEN @ ELSE rule.flow.tp_src,
        !.tp_dst = IF rule.wc.tp_dst_mask = 0 THEN @ ELSE rule.flow.tp_dst,
        !.metadata_mask = UINT64_MAX]

\* void ofputil_cls_rule_to_ofp11_match(rule, match)
ofputil_cls_rule_to_ofp11_match(rule) ==
    Ofp11Match(rule, WildcardsToOfp11(rule), VlanToOfp11(rule))


(***************************************************************************)
(* Specification of match conversion: a wire match of either format is     *)
(* drawn and decoded into a rule; the rule is encoded back into the format *)
(* and that match is decoded again.                                        *)
(***************************************************************************)

\* How many members of its starting match a drawn wire match changes.
MaxMatchChanges == 2

\* Ways to change a wire match: set a member; set a member and clear its
\* wildcard bit; set the 6-bit count of an OpenFlow 1.0 address.
WSet(f, v) == [kind |-> "set", f |-> f, v |-> v, bit |-> 0]
WMatch(f, bit, v) == [kind |-> "match", f |-> f, v |-> v, bit |-> bit]
WBits(shift, n) == [kind |-> "bits", f |-> "wildcards", v |-> n, bit |-> shift]

ApplyWire(m, c) ==
    CASE c.kind = "set" -> [m EXCEPT ![c.f] = c.v]
      [] c.kind = "match" ->
            [m EXCEPT ![c.f] = c.v,
                      !.wildcards = IF Has(@, c.bit) THEN @ - c.bit ELSE @]
      [] c.kind = "bits" ->
            [m EXCEPT !.wildcards =
                @ - (Shr(@, c.bit) % 64) * 2^(c.bit) + c.v * 2^(c.bit)]

RECURSIVE ApplyWireChanges(_, _, _)
ApplyWireChanges(m, changes, p) ==
    IF p = <<>> THEN m
    ELSE ApplyWireChanges(ApplyWire(m, changes[Head(p)]), changes, Tail(p))

AllOf(changes) == [j \in 1..Len(changes) |-> j]

ETH_ADDR == <<0, 35, 32, 1, 2, 3>>

\* struct ofp10_match with everything wildcarded.
ofp10_match_any ==
    [wildcards |-> OFPFW10.ALL, in_port |-> 0,
     dl_src |-> ETH_ADDR_ZERO, dl_dst |-> ETH_ADDR_ZERO,
     dl_vlan |-> 0, dl_vlan_pcp |-> 0, dl_type |-> 0,
     nw_tos |-> 0, nw_proto |-> 0, nw_src |-> U32_ZERO, nw_dst |-> U32_ZERO,
     tp_src |-> 0, tp_dst |-> 0]

\* struct ofp11_match with everything wildcarded.
ofp11_match_any ==
    [ofp11_match_zero EXCEPT
        !.wildcards = 2^10 - 1,
        !.dl_src_mask = ETH_ADDR_EXACT, !.dl_dst_mask = ETH_ADDR_EXACT,
        !.nw_src_mask = UINT32_MAX, !.nw_dst_mask = UINT32_MAX,
        !.metadata_mask = UINT64_MAX]

\* The starting matches of each format: everything wildcarded, and TCP over
\* IPv4 from an exact address to an exact port.
StartingMatches10 ==
    << <<>>,
       << WMatch("dl_type", OFPFW10.DL_TYPE, ETH_TYPE.IP),
          WMatch("nw_proto", OFPFW10.NW_PROTO, IPPROTO.TCP),
          WBits(OFPFW10.NW_SRC_SHIFT, 0), WSet("nw_src", IP_ADDR),
          WMatch("tp_dst", OFPFW10.TP_DST, 80) >> >>

StartingMatches11 ==
    << <<>>,
       << WMatch("dl_type", OFPFW11.DL_TYPE, ETH_TYPE.IP),
          WMatch("nw_proto", OFPFW11.NW_PROTO, IPPROTO.TCP),
          WSet("nw_src_mask", U32_ZERO), WSet("nw_src", IP_ADDR),
          WMatch("tp_dst", OFPFW11.TP_DST, 80) >> >>

MatchChanges10 ==
    << WMatch("in_port", OFPFW10.IN_PORT, 1), WSet("in_port", 2),
       WMatch("dl_src", OFPFW10.DL_SRC, ETH_ADDR), WSet("dl_dst", ETH_ADDR),
       WMatch("dl_vlan", OFPFW10.DL_VLAN, 5),
       WMatch("dl_vlan", OFPFW10.DL_VLAN, OFP10_VLAN_NONE),
       WMatch("dl_vlan", OFPFW10.DL_VLAN, VLAN.CFI + 5),
       WMatch("dl_vlan_pcp", OFPFW10.DL_VLAN_PCP, 3),
       WMatch("dl_vlan_pcp", OFPFW10.DL_VLAN_PCP, 8 + 3),
       WSet("dl_vlan", 7),
       WMatch("dl_type", OFPFW10.DL_TYPE, ETH_TYPE.IP),
       WMatch("dl_type", OFPFW10.DL_TYPE, ETH_TYPE.ARP),
       WMatch("dl_type", OFPFW10.DL_TYPE, ETH_TYPE.IPV6),
       WMatch("dl_type", OFPFW10.DL_TYPE, OFP_DL_TYPE_NOT_ETH_TYPE),
       WSet("dl_type", ETH_TYPE.IP),
       WMatch("nw_tos", OFPFW10.NW_TOS, 255), WSet("nw_tos", 255),
       WMatch("nw_proto", OFPFW10.NW_PROTO, IPPROTO.UDP),
       WMatch("nw_proto", OFPFW10.NW_PROTO, IPPROTO.ICMP),
       WMatch("nw_proto", OFPFW10.NW_PROTO, IPPROTO.SCTP),
       WBits(OFPFW10.NW_SRC_SHIFT, 0), WBits(OFPFW10.NW_SRC_SHIFT, 8),
       WBits(OFPFW10.NW_SRC_SHIFT, 31), WBits(OFPFW10.NW_SRC_SHIFT, 32),
       WBits(OFPFW10.NW_DST_SHIFT, 17), WBits(OFPFW10.NW_DST_SHIFT, 40),
       WSet("nw_src", UINT32_MAX), WSet("nw_dst", IP_ADDR),
       WMatch("tp_src", OFPFW10.TP_SRC, 1024), WSet("tp_dst", 443),
       WSet("wildcards", OFPFW10.ALL + 2^22) >>

MatchChanges11 ==
    << WMatch("in_port", OFPFW11.IN_PORT, U32(0, 1)),
       WMatch("in_port", OFPFW11.IN_PORT, U32(UINT16_MAX, UINT16_MAX - 1)),
       WMatch("in_port", OFPFW11.IN_PORT, U32(1, 0)),
       WSet("in_port", U32(1, 0)),
       WSet("dl_src_mask", ETH_ADDR_ZERO), WSet("dl_src", ETH_ADDR),
       WSet("dl_dst_mask", ETH_MCAST_MASK), WSet("dl_dst", ETH_ADDR_EXACT),
       WMatch("dl_vlan", OFPFW11.DL_VLAN, 5),
       WMatch("dl_vlan", OFPFW11.DL_VLAN, OFPVID11.NONE),
       WMatch("dl_vlan", OFPFW11.DL_VLAN, OFPVID11.ANY),
       WMatch("dl_vlan", OFPFW11.DL_VLAN, VLAN.CFI),
       WMatch("dl_vlan_pcp", OFPFW11.DL_VLAN_PCP, 3),
       WMatch("dl_vlan_pcp", OFPFW11.DL_VLAN_PCP, 8),
       WMatch("dl_type", OFPFW11.DL_TYPE, ETH_TYPE.IP),
       WMatch("dl_type", OFPFW11.DL_TYPE, ETH_TYPE.ARP),
       WMatch("dl_type", OFPFW11.DL_TYPE, ETH_TYPE.IPV6),
       WMatch("dl_type", OFPFW11.DL_TYPE, ETH_TYPE.MPLS),
       WMatch("dl_type", OFPFW11.DL_TYPE, OFP_DL_TYPE_NOT_ETH_TYPE),
       WSet("dl_type", ETH_TYPE.IP),
       WMatch("nw_tos", OFPFW11.NW_TOS, IP_DSCP_MASK - 4),
       WMatch("nw_tos", OFPFW11.NW_TOS, 255),
       WMatch("nw_proto", OFPFW11.NW_PROTO, IPPROTO.UDP),
       WMatch("nw_proto", OFPFW11.NW_PROTO, IPPROTO.ICMP),
       WMatch("nw_proto", OFPFW11.NW_PROTO, IPPROTO.SCTP),
       WSet("nw_src_mask", U32Not(CIDR24_MASK)), WSet("nw_src", UINT32_MAX),
       WSet("nw_dst_mask", U32Not(NON_CIDR_MASK)), WSet("nw_dst", IP_ADDR),
       WMatch("tp_src", OFPFW11.TP_SRC, 1024),
       WMatch("tp_src", OFPFW11.TP_SRC, 8),
       WMatch("tp_dst", OFPFW11.TP_DST, 443),
       WMatch("wildcards", OFPFW11.MPLS_LABEL, 2^10 - 1),
       WSet("metadata_mask", <<0, 0, 0, 0>>),
       WSet("wildcards", 2^10 - 1 + 2^16) >>

DrawnMatches(any, starts, changes) ==
    {ApplyWireChanges(ApplyWireChanges(any, starts[i], AllOf(starts[i])),
                      changes, p) :
        i \in 1..Len(starts), p \in Picks(Len(changes), MaxMatchChanges)}

\* format: "OF10" or "OF11"; match: the wire match drawn; decoded: the
\* outcome of decoding it; back: the match encoded from the decoded rule;
\* again: the outcome of decoding 'back'.
Conversion(format, match, decoded, back, again) ==
    [format |-> format, match |-> match, decoded |-> decoded,
     back |-> back, again |-> again]

InitMatch ==
    /\ \/ \E m \in DrawnMatches(ofp10_match_any, StartingMatches10, MatchChanges10) :
             mc = Conversion("OF10", m, NotCalled, NotCalled, NotCalled)
       \/ \E m \in DrawnMatches(ofp11_match_any, StartingMatches11, MatchChanges11) :
             mc = Conversion("OF11", m, NotCalled, NotCalled, NotCalled)
    /\ oh = Idle /\ full = Idle /\ part = Idle
    /\ neg = Idle /\ up = Idle /\ fmu = Idle /\ nr = Idle
    /\ wb = Idle
    /\ fsr = Idle
    /\ srp = Idle
    /\ sf = Idle
    /\ dec = Idle
    /\ xid = Idle
    /\ enc = Idle
    /\ pt = Idle
    /\ pull = Idle
    /\ pki = Idle
    /\ fmr = Idle
    /\ pko = Idle
    /\ pd = Idle
    /\ pmr = Idle

\* The priority the callers pass.
PRIORITY == 2^15

Decoded(c, outcome) ==
    IF c.decoded = NotCalled
    THEN Conversion(c.format, c.match, outcome, c.back, c.again)
    ELSE Conversion(c.format, c.match, c.decoded, c.back, outcome)

Encoded(c, match) == Conversion(c.format, c.match, c.decoded, match, c.again)

\* The next match to decode, if any: the one drawn, then the one encoded.
ToDecode(c) ==
    IF c.decoded = NotCalled THEN {c.match}
    ELSE IF c.back # NotCalled /\ c.again = NotCalled THEN {c.back}
    ELSE {}

ClsRuleFromOfp10Match ==
    /\ mc # Idle /\ mc.format = "OF10"
    /\ \E m \in ToDecode(mc) :
          mc' = Decoded(mc, Go(ofputil_cls_rule_from_ofp10_match(m, PRIORITY)))
    /\ UNCHANGED notMatchVars

ClsRuleToOfp10Match ==
    /\ mc # Idle /\ mc.format = "OF10"
    /\ mc.decoded # NotCalled /\ mc.back = NotCalled
    /\ mc' = Encoded(mc, ofputil_cls_rule_to_ofp10_match(mc.decoded.rule))
    /\ UNCHANGED notMatchVars

ClsRuleFromOfp11Match ==
    /\ mc # Idle /\ mc.format = "OF11"
    /\ \E m \in ToDecode(mc) :
          mc' = Decoded(mc, ofputil_cls_rule_from_ofp11_match(m, PRIORITY))
    /\ UNCHANGED notMatchVars

\* Only a rule decoded without error is encoded.
ClsRuleToOfp11Match ==
    /\ mc # Idle /\ mc.format = "OF11"
    /\ mc.decoded # NotCalled /\ mc.back = NotCalled
    /\ mc.decoded.error = OK
    /\ mc' = Encoded(mc, ofputil_cls_rule_to_ofp11_match(mc.decoded.rule))
    /\ UNCHANGED notMatchVars

NextMatch ==
    \/ ClsRuleFromOfp10Match
    \/ ClsRuleToOfp10Match
    \/ ClsRuleFromOfp11Match
    \/ ClsRuleToOfp11Match

SpecMatch == InitMatch /\ [][NextMatch]_vars

(***************************************************************************)
(* Properties of match conversion                                          *)
(***************************************************************************)

\* Flow values, wildcards and masks are all equal.
SameMatch(a, b) == a.flow = b.flow /\ a.wc = b.wc

RoundTripDone(c, format) ==
    c # Idle /\ c.format = format /\ c.again # NotCalled

\* decode(encode(rule)) is normalize(rule).
RoundTripIsNormalized(c) ==
    /\ c.again.error = OK
    /\ SameMatch(c.again.rule, ofputil_normalize_rule(c.decoded.rule))

\* decode(encode(rule)) is rule.
RoundTripIsSame(c) ==
    c.again.error = OK /\ SameMatch(c.again.rule, c.decoded.rule)

\* C10 (as stated): for any rule expressible in the OpenFlow 1.0 match
\* format, decoding its OpenFlow 1.0 encoding yields the normalized rule, and
\* likewise in the OpenFlow 1.1 standard match format.
C10_RoundTripIsNormalizedRule ==
    RoundTripDone(mc, "OF10") \/ RoundTripDone(mc, "OF11") =>
        RoundTripIsNormalized(mc)

\* C10 (amended): for any rule decoded from an OpenFlow 1.0 match, decoding
\* its OpenFlow 1.0 encoding yields the rule itself, normalized or not; for
\* any rule decoded from an OpenFlow 1.1 standard match, decoding its
\* OpenFlow 1.1 encoding yields the rule itself, which is normalized.
C10_RoundTripIsSameRule ==
    /\ RoundTripDone(mc, "OF10") => RoundTripIsSame(mc)
    /\ RoundTripDone(mc, "OF11") =>
          RoundTripIsSame(mc) /\ RoundTripIsNormalized(mc)

\* An OpenFlow 1.0 round trip of a rule that normalization would change,
\* with an address prefix matched.
C10_Witness ==
    /\ RoundTripDone(mc, "OF10")
    /\ ofputil_normalize_rule(mc.decoded.rule) # mc.decoded.rule
    /\ mc.decoded.rule.wc.nw_src_mask \notin {U32_ZERO, UINT32_MAX}


(***************************************************************************)
(* Specification of the wildcard bit counts of OpenFlow 1.0: a count is    *)
(* drawn, converted to a netmask, and the netmask converted to a count.    *)
(***************************************************************************)

\* The largest count drawn, beyond the 6 bits of the wire field.
MaxWcbits == 130

\* calls: 0 before ofputil_wcbits_to_netmask, 1 after it, 2 after
\* ofputil_netmask_to_wcbits.
WcbitsRun(wcbits, netmask, back, calls) ==
    [wcbits |-> wcbits, netmask |-> netmask, back |-> back, calls |-> calls]

InitWcbits ==
    /\ \E c \in 0..MaxWcbits : wb = WcbitsRun(c, U32_ZERO, 0, 0)
    /\ oh = Idle /\ full = Idle /\ part = Idle /\ neg = Idle /\ up = Idle
    /\ fmu = Idle /\ nr = Idle /\ mc = Idle
    /\ fsr = Idle
    /\ srp = Idle
    /\ sf = Idle
    /\ dec = Idle
    /\ xid = Idle
    /\ enc = Idle
    /\ pt = Idle
    /\ pull = Idle
    /\ pki = Idle
    /\ fmr = Idle
    /\ pko = Idle
    /\ pd = Idle
    /\ pmr = Idle

WcbitsToNetmask ==
    /\ wb # Idle /\ wb.calls = 0
    /\ wb' = WcbitsRun(wb.wcbits, ofputil_wcbits_to_netmask(wb.wcbits), 0, 1)
    /\ UNCHANGED notWcbitsVars

NetmaskToWcbits ==
    /\ wb # Idle /\ wb.calls = 1
    /\ wb' = WcbitsRun(wb.wcbits, wb.netmask,
                       ofputil_netmask_to_wcbits(wb.netmask), 2)
    /\ UNCHANGED notWcbitsVars

NextWcbits == WcbitsToNetmask \/ NetmaskToWcbits

SpecWcbits == InitWcbits /\ [][NextWcbits]_vars

(***************************************************************************)
(* Properties of the wildcard bit counts                                   *)
(***************************************************************************)

\* The count that the 6 low bits of c stand for: 32 and more wildcard the
\* whole address.
Saturated(c) == IF c % 64 < 32 THEN c % 64 ELSE 32

\* C11: for every count c in 0..32 the netmask of c converts back to c; of
\* a larger c only the 6 low bits are used, and a count of 32 or more gives
\* the all-zero netmask, which converts back to 32.
C11_WcbitsRoundTrip ==
    wb # Idle =>
        /\ wb.calls >= 1 /\ Saturated(wb.wcbits) = 32 => wb.netmask = U32_ZERO
        /\ wb.calls >= 1 /\ Saturated(wb.wcbits) < 32 => wb.netmask # U32_ZERO
        /\ wb.calls = 2 =>
              /\ wb.back = Saturated(wb.wcbits)
              /\ wb.wcbits <= 32 => wb.back = wb.wcbits

\* A count above 63 whose low bits stand for a proper prefix has made the
\* round trip.
C11_Witness ==
    /\ wb # Idle /\ wb.calls = 2
    /\ wb.wcbits > 63 /\ wb.back \in 1..31


(***************************************************************************)
(*                     FLOW STATS REPLY DECODING                           *)
(***************************************************************************)

\* sizeof of the fixed part of a flow stats record per message type, and of
\* the OpenFlow 1.1 standard match and match header.
FlowStatsSize ==
    [OFPUTIL_OFPST10_FLOW_REPLY |-> 88, OFPUTIL_OFPST11_FLOW_REPLY |-> 48,
     OFPUTIL_NXST_FLOW_REPLY |-> 48]
Ofp11MatchSize == [ofp11_match |-> 88, ofp11_match_header |-> 4]
OFP_ACTION_ALIGN == 8
EOF == "EOF"
EINVAL == "EINVAL"
NOT_REACHED == "NOT_REACHED"

ROUND_UP(x, y) == ((x + y - 1) \div y) * y

\* size_t ofputil_stats_msg_len(oh)
ofputil_stats_msg_len(header) ==
    IF header.stat = OFPST.VENDOR
    THEN IF header.version = OFP_VERSION.OFP10 THEN SizeOf.nicira10_stats_msg
         ELSE SizeOf.nicira11_stats_msg
    ELSE IF header.version = OFP_VERSION.OFP10 THEN SizeOf.ofp10_stats_msg
         ELSE SizeOf.ofp11_stats_msg

\* The message buffer: its header (at msg->l2 once that is set), whether
\* msg->l2 is set, msg->size, the records from msg->data on, and how many
\* times the stats header was pulled. A record is its number in the message,
\* the length and match_len it declares, and the bytes it has in the buffer.
StatsBuf(header, l2, size, front, pulls) ==
    [oh |-> header, l2 |-> l2, size |-> size, front |-> front, pulls |-> pulls]

\* ofpbuf_pull(msg, n) within the first record.
PullFront(msg, n) ==
    [msg EXCEPT !.size = @ - n, !.front[1].bytes = @ - n]

\* The last pull of a record of 'n' bytes: msg->data reaches the next record.
PullRest(msg, n) ==
    IF msg.front[1].bytes = n
    THEN [msg EXCEPT !.size = @ - n, !.front = Tail(@)]
    ELSE PullFront(msg, n)

\* The header pull repeated on every call (a mutation).
pull_stats_msg_every_call(msg) ==
    [msg EXCEPT !.l2 = TRUE, !.size = @ - ofputil_stats_msg_len(msg.oh),
                !.pulls = @ + 1]

\* ofputil_decode_flow_stats_reply: "if (!msg->l2) { msg->l2 = msg->data;
\* ofputil_pull_stats_msg(msg); }"
PullStatsMsgOnce(msg) ==
    IF ~msg.l2
    THEN [msg EXCEPT !.l2 = TRUE, !.size = @ - ofputil_stats_msg_len(msg.oh),
                     !.pulls = @ + 1]
    ELSE msg

Returned(ret, msg, fs) == [ret |-> ret, msg |-> msg, fs |-> fs]
NoFlowStats == [id |-> 0, length |-> 0]

\* What a call returns when it reached the codec of the actions, with the
\* length it handed to the codec.
Handed(r, actions_len) ==
    [ret |-> r.ret, msg |-> r.msg, fs |-> r.fs, handed |-> actions_len]

\* ofpacts_pull_openflow10(msg, actions_len, ofpacts), and the instructions
\* of OpenFlow 1.1 alike: the length must be a multiple of OFP_ACTION_ALIGN
\* and within the buffer.  actions_len is a size_t: a negative number stands
\* for the size it wraps to, SIZE_MAX + 1 + actions_len, which is beyond
\* any buffer.
PullActions(msg, rec, actions_len) ==
    IF actions_len < 0 \/ actions_len % OFP_ACTION_ALIGN # 0 \/ actions_len > msg.size
    THEN Handed(Returned(EINVAL, msg, NoFlowStats), actions_len)
    ELSE Handed(Returned(OK, PullRest(msg, actions_len),
                         [id |-> rec.id, length |-> rec.length]),
                actions_len)

\* The OFPUTIL_OFPST10_FLOW_REPLY branch, after the fixed part was pulled.
Ofp10FlowStats(msg, rec, fixed) ==
    IF rec.length < fixed THEN Returned(EINVAL, msg, NoFlowStats)
    ELSE PullActions(msg, rec, rec.length - fixed)

\* The OFPUTIL_OFPST11_FLOW_REPLY branch: ofputil_pull_ofp12_match pulls a
\* standard match of exactly sizeof(struct ofp11_match) bytes; a length
\* below the fixed part and the match wraps around as a size_t.
Ofp11FlowStats(msg, rec, fixed) ==
    IF rec.length < fixed THEN Returned(EINVAL, msg, NoFlowStats)
    ELSE IF \/ msg.size < Ofp11MatchSize.ofp11_match_header
            \/ rec.match_len # Ofp11MatchSize.ofp11_match
            \/ msg.size < Ofp11MatchSize.ofp11_match
    THEN Returned(EINVAL, msg, NoFlowStats)
    ELSE PullActions(PullFront(msg, Ofp11MatchSize.ofp11_match), rec,
                     rec.length - fixed - Ofp11MatchSize.ofp11_match)

\* The OFPUTIL_NXST_FLOW_REPLY branch: nx_pull_match pulls match_len bytes
\* and their padding to a multiple of 8.
NxFlowStats(msg, rec, fixed) ==
    IF rec.length < fixed + ROUND_UP(rec.match_len, 8)
    THEN Returned(EINVAL, msg, NoFlowStats)
    ELSE IF msg.size < ROUND_UP(rec.match_len, 8)
    THEN Returned(EINVAL, msg, NoFlowStats)
    ELSE PullActions(PullFront(msg, ROUND_UP(rec.match_len, 8)), rec,
                     rec.length - fixed - ROUND_UP(rec.match_len, 8))

\* ofputil_decode_flow_stats_reply after the header was pulled, with the
\* code of the message's type.
DecodeFlowStats(msg, code) ==
    IF msg.size = 0 THEN Returned(EOF, msg, NoFlowStats)
    ELSE IF code \notin DOMAIN FlowStatsSize
    THEN Returned(NOT_REACHED, msg, NoFlowStats)
    ELSE IF msg.size < FlowStatsSize[code]
    THEN Returned(EINVAL, msg, NoFlowStats)
    ELSE CASE code = "OFPUTIL_OFPST11_FLOW_REPLY" ->
                Ofp11FlowStats(PullFront(msg, FlowStatsSize[code]),
                               msg.front[1], FlowStatsSize[code])
           [] code = "OFPUTIL_OFPST10_FLOW_REPLY" ->
                Ofp10FlowStats(PullFront(msg, FlowStatsSize[code]),
                               msg.front[1], FlowStatsSize[code])
           [] code = "OFPUTIL_NXST_FLOW_REPLY" ->
                NxFlowStats(PullFront(msg, FlowStatsSize[code]),
                            msg.front[1], FlowStatsSize[code])

\* int ofputil_decode_flow_stats_reply(fs, msg, flow_age_extension, ofpacts)
ofputil_decode_flow_stats_reply(msg) ==
    DecodeFlowStats(PullStatsMsgOnce(msg),
                    ofputil_msg_type_code(ofputil_decode_msg_type(msg.oh).typep))


(***************************************************************************)
(* Specification of flow stats reply decoding: a reply message of one of   *)
(* the three dialects is drawn, with well-formed records and possibly a    *)
(* malformed last one, and the decoder is called on it repeatedly.         *)
(***************************************************************************)

\* How many well-formed records a message packs at most, and how many calls
\* are made after the last record.
MaxRecords == 2
MaxCallsAtEnd == 2

FlowReplyHeader(version, type, stat, vendor, subtype) ==
    [version |-> version, type |-> type, stat |-> stat, vendor |-> vendor,
     subtype |-> subtype, length |-> 0]

FlowReplyHeaders ==
    [OFPUTIL_OFPST10_FLOW_REPLY |->
        FlowReplyHeader(OFP_VERSION.OFP10, OFPT10.STATS_REPLY, OFPST.FLOW, 0, 0),
     OFPUTIL_OFPST11_FLOW_REPLY |->
        FlowReplyHeader(OFP_VERSION.OFP12, OFPT11.STATS_REPLY, OFPST.FLOW, 0, 0),
     OFPUTIL_NXST_FLOW_REPLY |->
        FlowReplyHeader(OFP_VERSION.OFP10, OFPT10.STATS_REPLY, OFPST.VENDOR,
                        NX_VENDOR_ID, NXST.FLOW)]

Record(length, match_len, bytes) ==
    [id |-> 0, length |-> length, match_len |-> match_len, bytes |-> bytes]

\* The match_len values of a dialect's records (OpenFlow 1.0 has none), and
\* the bytes a match of that length takes.
MatchLens(code) ==
    CASE code = "OFPUTIL_OFPST10_FLOW_REPLY" -> {0}
      [] code = "OFPUTIL_OFPST11_FLOW_REPLY" -> {Ofp11MatchSize.ofp11_match}
      [] code = "OFPUTIL_NXST_FLOW_REPLY" -> {0, 4, 16}

\* Well-formed records: the fixed part, the padded match, and 0 or 8 bytes
\* of actions, with the length that declares them.
WellFormedRecords(code) ==
    {Record(FlowStatsSize[code] + ROUND_UP(ml, 8) + a, ml,
            FlowStatsSize[code] + ROUND_UP(ml, 8) + a) :
        ml \in MatchLens(code), a \in {0, OFP_ACTION_ALIGN}}

\* Malformed records: a fragment of the fixed part; a length below the fixed
\* part; a length beyond the bytes present; actions that are not a multiple
\* of 8 bytes; a match_len beyond the length; bytes left over after the
\* declared length; a match that is all there, with a length that ends 8
\* bytes before the end of the match, or with the fixed part.
MalformedRecords(code) ==
    {Record(FlowStatsSize[code], 0, FlowStatsSize[code] - 8),
     Record(FlowStatsSize[code] - 8, 0, FlowStatsSize[code]),
     Record(FlowStatsSize[code] + 200, 0, FlowStatsSize[code] + 96),
     Record(FlowStatsSize[code] + 92, 0, FlowStatsSize[code] + 92),
     Record(FlowStatsSize[code] + 8, 16, FlowStatsSize[code] + 8),
     Record(FlowStatsSize[code], 0, FlowStatsSize[code] + 4)}
    \cup {Record(FlowStatsSize[code] + ROUND_UP(ml, 8) - 8, ml,
                 FlowStatsSize[code] + ROUND_UP(ml, 8)) :
             ml \in MatchLens(code) \ {0}}
    \cup {Record(FlowStatsSize[code], ml,
                 FlowStatsSize[code] + ROUND_UP(ml, 8)) :
             ml \in MatchLens(code) \ {0}}

RECURSIVE SeqsUpTo(_, _)
SeqsUpTo(S, n) ==
    IF n = 0 THEN {<<>>}
    ELSE SeqsUpTo(S, n - 1) \cup
         {Append(q, x) : q \in {p \in SeqsUpTo(S, n - 1) : Len(p) = n - 1},
                         x \in S}

RECURSIVE SumBytes(_)
SumBytes(records) ==
    IF records = <<>> THEN 0 ELSE Head(records).bytes + SumBytes(Tail(records))

Numbered(records) == [i \in 1..Len(records) |-> [records[i] EXCEPT !.id = i]]

\* The message that packs 'records' after the stats header of 'header'.
FlowReplyMsg(header, records) ==
    StatsBuf([header EXCEPT
                !.length = ofputil_stats_msg_len(header) + SumBytes(records)],
             FALSE, ofputil_stats_msg_len(header) + SumBytes(records),
             Numbered(records), 0)

\* msg: the buffer; records: the well-formed records packed; malformed:
\* whether a malformed record follows them; returns: what each call
\* returned and yielded.
FlowStatsRun(msg, records, malformed, returns) ==
    [msg |-> msg, records |-> records, malformed |-> malformed,
     returns |-> returns]

InitFlowStats ==
    /\ \E code \in DOMAIN FlowStatsSize :
          \E records \in SeqsUpTo(WellFormedRecords(code), MaxRecords) :
             \/ fsr = FlowStatsRun(FlowReplyMsg(FlowReplyHeaders[code], records),
                                   Numbered(records), FALSE, <<>>)
             \/ \E bad \in MalformedRecords(code) :
                   fsr = FlowStatsRun(
                            FlowReplyMsg(FlowReplyHeaders[code],
                                         Append(records, bad)),
                            Numbered(records), TRUE, <<>>)
    /\ oh = Idle /\ full = Idle /\ part = Idle /\ neg = Idle /\ up = Idle
    /\ fmu = Idle /\ nr = Idle /\ mc = Idle /\ wb = Idle
    /\ srp = Idle
    /\ sf = Idle
    /\ dec = Idle
    /\ xid = Idle
    /\ enc = Idle
    /\ pt = Idle
    /\ pull = Idle
    /\ pki = Idle
    /\ fmr = Idle
    /\ pko = Idle
    /\ pd = Idle
    /\ pmr = Idle

\* A call's return value, the record it yielded, and the length it handed
\* to the codec of the actions if it got that far.
AfterFlowStatsCall(run, r) ==
    FlowStatsRun(r.msg, run.records, run.malformed,
                 Append(run.returns,
                        [ret |-> r.ret, fs |-> r.fs,
                         handed |-> IF "handed" \in DOMAIN r
                                    THEN <<r.handed>> ELSE <<>>]))

\* The caller iterates; it stops at an error.
DecodeFlowStatsReply ==
    /\ fsr # Idle
    /\ Len(fsr.returns) < Len(fsr.records) + MaxCallsAtEnd
    /\ \A i \in 1..Len(fsr.returns) : fsr.returns[i].ret \in {OK, EOF}
    /\ fsr' = AfterFlowStatsCall(fsr, ofputil_decode_flow_stats_reply(fsr.msg))
    /\ UNCHANGED notFlowStatsVars

NextFlowStats == DecodeFlowStatsReply

SpecFlowStats == InitFlowStats /\ [][NextFlowStats]_vars

(***************************************************************************)
(* Properties of flow stats reply decoding                                 *)
(***************************************************************************)

\* Call k yields record k while there is one, and returns EOF after that.
IteratesInWireOrder(records, returns) ==
    \A k \in 1..Len(returns) :
        IF k <= Len(records)
        THEN /\ returns[k].ret = OK
             /\ returns[k].fs.id = k
             /\ returns[k].fs.length = records[k].length
        ELSE returns[k].ret = EOF

\* C12: on a reply that packs n >= 0 well-formed records, the first n calls
\* of ofputil_decode_flow_stats_reply return 0 and yield the records in wire
\* order, call n + 1 and every later call return EOF, and the stats header
\* is pulled exactly once, by the first call.
C12_FlowStatsReplyIterates ==
    fsr # Idle /\ ~fsr.malformed =>
        /\ IteratesInWireOrder(fsr.records, fsr.returns)
        /\ fsr.msg.pulls = (IF fsr.returns = <<>> THEN 0 ELSE 1)

\* Two Nicira records were yielded and two more calls returned EOF.
C12_Witness ==
    /\ fsr # Idle /\ ~fsr.malformed
    /\ fsr.msg.oh.stat = OFPST.VENDOR
    /\ Len(fsr.records) = 2 /\ Len(fsr.returns) = 4
    /\ fsr.returns[2].ret = OK /\ fsr.returns[4].ret = EOF

\* The code of a run's message, and the length that a record's actions or
\* instructions take.
FlowStatsCode(run) ==
    ofputil_msg_type_code(ofputil_decode_msg_type(run.msg.oh).typep)

ActionsLenOf(code, rec) ==
    rec.length - FlowStatsSize[code] - ROUND_UP(rec.match_len, 8)

HandedIsWhatIsLeft(run, dialects) ==
    FlowStatsCode(run) \in dialects =>
        \A k \in 1..Len(run.returns) :
            run.returns[k].handed # <<>> =>
                /\ run.returns[k].handed[1] >= 0
                /\ k <= Len(run.records) =>
                      run.returns[k].handed[1]
                         = ActionsLenOf(FlowStatsCode(run), run.records[k])

\* C28: in every dialect the length handed to the codec of the actions or
\* instructions is the record's declared length minus the fixed part minus
\* the padded match, and never wraps below zero: a record whose length is
\* below the fixed part plus the padded match is rejected before that.
C28_HandedLengthNeverWraps ==
    fsr # Idle => HandedIsWhatIsLeft(fsr, DOMAIN FlowStatsSize)

\* It is so in the OpenFlow 1.0 and the Nicira dialects.
HandedLengthNeverWraps10 ==
    fsr # Idle =>
        HandedIsWhatIsLeft(fsr, {"OFPUTIL_OFPST10_FLOW_REPLY",
                                 "OFPUTIL_NXST_FLOW_REPLY"})


(***************************************************************************)
(* STATS REPLY LISTS                                                       *)
(*                                                                         *)
(* A list of reply messages is a sequence; its back is the last message.   *)
(* A message is its size, its OFPSF_REPLY_MORE flag and the records in it, *)
(* each with its offset in the message.                                    *)
(***************************************************************************)

StatsMsg(size, more, records) ==
    [size |-> size, more |-> more, records |-> records]

Rec(id, len, ofs) == [id |-> id, len |-> len, ofs |-> ofs]

\* put_stats_reply__ puts a header like the request's: put_openflow_xid zeroes
\* everything after the OpenFlow header, the flags included.
put_stats_reply__(request) ==
    StatsMsg(ofputil_stats_msg_len(request), FALSE, <<>>)

ofputil_start_stats_reply(request) == << put_stats_reply__(request) >>

Back(replies) == replies[Len(replies)]

\* The list after ofputil_reserve_stats_reply; the message it returns is the
\* back of that list.
ofputil_reserve_stats_reply(len, request, replies) ==
    IF Back(replies).size + len <= UINT16_MAX
    THEN replies
    ELSE Append([replies EXCEPT ![Len(replies)].more = TRUE],
                put_stats_reply__(request))

\* ofpbuf_put_uninit on the back of 'replies', for the bytes of record 'id'.
PutUninit(replies, id, len) ==
    [replies EXCEPT ![Len(replies)] =
        StatsMsg(@.size + len, @.more,
                 Append(@.records, Rec(id, len, @.size)))]

ofputil_append_stats_reply(id, len, request, replies) ==
    PutUninit(ofputil_reserve_stats_reply(len, request, replies), id, len)

\* The records of 'msg' from offset 'start_ofs' on, and those before it.
RECURSIVE RecordsFrom(_, _)
RecordsFrom(records, start_ofs) ==
    IF records = <<>> THEN <<>>
    ELSE IF Head(records).ofs >= start_ofs THEN records
    ELSE RecordsFrom(Tail(records), start_ofs)

RecordsBefore(records, start_ofs) ==
    SubSeq(records, 1, Len(records) - Len(RecordsFrom(records, start_ofs)))

\* memcpy of the bytes from 'start_ofs' on to the new back, 'base' bytes in.
RECURSIVE Moved(_, _, _)
Moved(records, start_ofs, base) ==
    IF records = <<>> THEN <<>>
    ELSE << Rec(Head(records).id, Head(records).len,
                Head(records).ofs - start_ofs + base) >>
         \o Moved(Tail(records), start_ofs, base)

\* The mutation: the bytes are copied to a new message and the old message
\* keeps them.
postappend_without_truncating(start_ofs, request, replies) ==
    IF Back(replies).size > UINT16_MAX
    THEN LET n == Len(replies)
             len == replies[n].size - start_ofs
             reserved == ofputil_reserve_stats_reply(len, request, replies)
             base == Back(reserved).size
         IN [reserved EXCEPT
               ![Len(reserved)] =
                   StatsMsg(@.size + len, @.more,
                            @.records \o Moved(RecordsFrom(replies[n].records,
                                                           start_ofs),
                                               start_ofs, base))]
    ELSE replies

ofputil_postappend_stats_reply(start_ofs, request, replies) ==
    IF Back(replies).size > UINT16_MAX
    THEN LET n == Len(replies)
             len == replies[n].size - start_ofs
             reserved == ofputil_reserve_stats_reply(len, request, replies)
             base == Back(reserved).size
             copied == [reserved EXCEPT
               ![Len(reserved)] =
                   StatsMsg(@.size + len, @.more,
                            @.records \o Moved(RecordsFrom(replies[n].records,
                                                           start_ofs),
                                               start_ofs, base))]
         IN [copied EXCEPT
               ![n] = StatsMsg(start_ofs, @.more,
                               RecordsBefore(@.records, start_ofs))]
    ELSE replies

\* The record is built in place at the end of the back message, and then
\* moved to a new message if the back has grown beyond 65535 bytes.
ofputil_append_flow_stats_reply(id, len, request, replies) ==
    ofputil_postappend_stats_reply(Back(replies).size, request,
                                   PutUninit(replies, id, len))

(***************************************************************************)
(* Specification of stats reply lists: a list is started for a request of  *)
(* one dialect, and records of small and large sizes are appended with     *)
(* either function.                                                        *)
(***************************************************************************)

MaxAppends == 5

\* The lengths of the records appended; the largest record that fits one
\* message of the dialect is added to them.
SMALL_RECORD == 88
LARGE_RECORD == 30000
RecordLens(request) ==
    {SMALL_RECORD, LARGE_RECORD, UINT16_MAX - ofputil_stats_msg_len(request)}

\* request: the header of the request; replies: the list; appended: the
\* lengths of the records appended, in order.
StatsReplyRun(request, replies, appended) ==
    [request |-> request, replies |-> replies, appended |-> appended]

InitStatsReply ==
    /\ \E code \in DOMAIN FlowReplyHeaders :
          srp = StatsReplyRun(FlowReplyHeaders[code],
                              ofputil_start_stats_reply(FlowReplyHeaders[code]),
                              <<>>)
    /\ oh = Idle /\ full = Idle /\ part = Idle /\ neg = Idle /\ up = Idle
    /\ fmu = Idle /\ nr = Idle /\ mc = Idle /\ wb = Idle /\ fsr = Idle
    /\ sf = Idle
    /\ dec = Idle
    /\ xid = Idle
    /\ enc = Idle
    /\ pt = Idle
    /\ pull = Idle
    /\ pki = Idle
    /\ fmr = Idle
    /\ pko = Idle
    /\ pd = Idle
    /\ pmr = Idle

AppendStatsReply ==
    /\ srp # Idle
    /\ Len(srp.appended) < MaxAppends
    /\ \E len \in RecordLens(srp.request) :
          srp' = StatsReplyRun(srp.request,
                    ofputil_append_stats_reply(Len(srp.appended) + 1, len,
                                               srp.request, srp.replies),
                    Append(srp.appended, len))
    /\ UNCHANGED notStatsReplyVars

AppendFlowStatsReply ==
    /\ srp # Idle
    /\ Len(srp.appended) < MaxAppends
    /\ \E len \in RecordLens(srp.request) :
          srp' = StatsReplyRun(srp.request,
                    ofputil_append_flow_stats_reply(Len(srp.appended) + 1, len,
                                                    srp.request, srp.replies),
                    Append(srp.appended, len))
    /\ UNCHANGED notStatsReplyVars

NextStatsReply == AppendStatsReply \/ AppendFlowStatsReply

SpecStatsReply == InitStatsReply /\ [][NextStatsReply]_vars

(***************************************************************************)
(* Properties of stats reply lists                                         *)
(***************************************************************************)

RECURSIVE AllRecords(_)
AllRecords(replies) ==
    IF replies = <<>> THEN <<>>
    ELSE Head(replies).records \o AllRecords(Tail(replies))

\* Every record of 'msg' lies inside it, after the header and after the
\* record before it.
RecordsInside(request, msg) ==
    \A i \in 1..Len(msg.records) :
        /\ msg.records[i].ofs =
              (IF i = 1 THEN ofputil_stats_msg_len(request)
               ELSE msg.records[i - 1].ofs + msg.records[i - 1].len)
        /\ msg.records[i].ofs + msg.records[i].len <= msg.size

\* C13: after any sequence of appends to a list started by
\* ofputil_start_stats_reply, with records that each fit one message, every
\* message has at most 65535 bytes, every message but the last has
\* OFPSF_REPLY_MORE set and the last has it clear, and every record lies
\* wholly inside one message, the records being in append order.
C13_StatsReplyListWellFormed ==
    srp # Idle =>
        /\ \A i \in 1..Len(srp.replies) :
              /\ srp.replies[i].size <= UINT16_MAX
              /\ srp.replies[i].more = (i < Len(srp.replies))
              /\ RecordsInside(srp.request, srp.replies[i])
        /\ LET all == AllRecords(srp.replies)
           IN /\ Len(all) = Len(srp.appended)
              /\ \A k \in 1..Len(all) :
                    all[k].id = k /\ all[k].len = srp.appended[k]

\* A flow stats record that overflowed the back message was moved to a new
\* message: the list has three messages, the last one holding one record.
C13_Witness ==
    /\ srp # Idle
    /\ Len(srp.replies) = 3
    /\ Len(srp.appended) = 5
    /\ Back(srp.replies).records # <<>>
    /\ srp.replies[1].size + LARGE_RECORD > UINT16_MAX


(***************************************************************************)
(* SWITCH FEATURES REPLIES                                                 *)
(*                                                                         *)
(* A features reply buffer is its version, its size and the length field   *)
(* of its header.                                                          *)
(***************************************************************************)

FeaturesBuf(version, size, length) ==
    [version |-> version, size |-> size, length |-> length]

ofputil_get_phy_port_size(ofp_version) ==
    IF ofp_version = OFP_VERSION.OFP10 THEN SizeOf.ofp10_phy_port
    ELSE SizeOf.ofp11_port

\* make_openflow_xid puts the fixed part, with its length in the header.
ofputil_encode_switch_features(version) ==
    FeaturesBuf(version, SizeOf.ofp_switch_features,
                SizeOf.ofp_switch_features)

\* The mutation: the port is put whatever the size of the buffer.
put_phy_port_unchecked(ofp_version, b) ==
    [b EXCEPT !.size = @ + ofputil_get_phy_port_size(ofp_version)]

ofputil_put_phy_port(ofp_version, b) ==
    IF ofp_version = OFP_VERSION.OFP10
    THEN IF b.size + SizeOf.ofp10_phy_port <= UINT16_MAX
         THEN [b EXCEPT !.size = @ + SizeOf.ofp10_phy_port]
         ELSE b
    ELSE IF b.size + SizeOf.ofp11_port <= UINT16_MAX
         THEN [b EXCEPT !.size = @ + SizeOf.ofp11_port]
         ELSE b

ofputil_put_switch_features_port(b) == ofputil_put_phy_port(b.version, b)

update_openflow_length(buffer) == [buffer EXCEPT !.length = buffer.size]

max_ports_in_features(osf) ==
    osf.length + ofputil_get_phy_port_size(osf.version) > UINT16_MAX

\* The value returned and the buffer left.
ofputil_switch_features_ports_trunc(b) ==
    IF max_ports_in_features(b)
    THEN [ret |-> TRUE,
          b |-> update_openflow_length(
                    [b EXCEPT !.size = SizeOf.ofp_switch_features])]
    ELSE [ret |-> FALSE, b |-> b]

(***************************************************************************)
(* Specification of switch features replies: ports are put in a buffer of  *)
(* one version, the length is updated, and the ports are truncated.        *)
(***************************************************************************)

\* How many ports are put at most: more than fit a message of either port
\* size.
MaxPorts == 1366

\* b: the buffer; offered: the calls of ofputil_put_switch_features_port;
\* before: the buffer when the truncation was called; phase: "building",
\* then "updated" once the length was updated, then "truncated"; ret: what
\* the truncation returned.
FeaturesRun(b, offered, before, phase, ret) ==
    [b |-> b, offered |-> offered, before |-> before, phase |-> phase,
     ret |-> ret]

InitFeatures ==
    /\ \E version \in {OFP_VERSION.OFP10, OFP_VERSION.OFP11, OFP_VERSION.OFP12} :
          sf = FeaturesRun(ofputil_encode_switch_features(version), 0,
                           ofputil_encode_switch_features(version),
                           "building", FALSE)
    /\ oh = Idle /\ full = Idle /\ part = Idle /\ neg = Idle /\ up = Idle
    /\ fmu = Idle /\ nr = Idle /\ mc = Idle /\ wb = Idle /\ fsr = Idle
    /\ srp = Idle
    /\ dec = Idle
    /\ xid = Idle
    /\ enc = Idle
    /\ pt = Idle
    /\ pull = Idle
    /\ pki = Idle
    /\ fmr = Idle
    /\ pko = Idle
    /\ pd = Idle
    /\ pmr = Idle

PutSwitchFeaturesPort ==
    /\ sf # Idle
    /\ sf.phase = "building"
    /\ sf.offered < MaxPorts
    /\ sf' = [sf EXCEPT !.b = ofputil_put_switch_features_port(@),
                        !.offered = @ + 1]
    /\ UNCHANGED notFeaturesVars

UpdateOpenflowLength ==
    /\ sf # Idle
    /\ sf.phase = "building"
    /\ sf' = [sf EXCEPT !.b = update_openflow_length(@), !.phase = "updated"]
    /\ UNCHANGED notFeaturesVars

SwitchFeaturesPortsTrunc ==
    /\ sf # Idle
    /\ sf.phase = "updated"
    /\ sf' = FeaturesRun(ofputil_switch_features_ports_trunc(sf.b).b,
                         sf.offered, sf.b, "truncated",
                         ofputil_switch_features_ports_trunc(sf.b).ret)
    /\ UNCHANGED notFeaturesVars

NextFeatures ==
    PutSwitchFeaturesPort \/ UpdateOpenflowLength \/ SwitchFeaturesPortsTrunc

SpecFeatures == InitFeatures /\ [][NextFeatures]_vars

(***************************************************************************)
(* Properties of switch features replies                                   *)
(***************************************************************************)

\* The ports in the buffer, and the most that fit a message.
PortsIn(b) ==
    (b.size - SizeOf.ofp_switch_features)
        \div ofputil_get_phy_port_size(b.version)

MaxPortsThatFit(version) ==
    (UINT16_MAX - SizeOf.ofp_switch_features)
        \div ofputil_get_phy_port_size(version)

\* What the truncation leaves: only the fixed part when it returns true, the
\* buffer as it was when it returns false.
TruncLeaves(run) ==
    IF run.ret
    THEN run.b = FeaturesBuf(run.b.version, SizeOf.ofp_switch_features,
                             SizeOf.ofp_switch_features)
    ELSE run.b = run.before

\* C14 as stated: the buffer never exceeds 65535 bytes, and the truncation
\* returns true and removes the ports exactly when at least one port was not
\* appended.
C14_TruncExactlyWhenPortDropped ==
    sf # Idle =>
        /\ sf.b.size <= UINT16_MAX
        /\ sf.phase = "truncated" =>
              /\ sf.ret = (sf.offered > PortsIn(sf.before))
              /\ TruncLeaves(sf)

\* C14, amended: the buffer never exceeds 65535 bytes, and the truncation
\* returns true and removes the ports exactly when the buffer holds as many
\* ports as fit a message, which is so whenever a port was not appended and
\* also when every port was appended and they fill the message.
C14_TruncExactlyWhenFull ==
    sf # Idle =>
        /\ sf.b.size <= UINT16_MAX
        /\ sf.phase = "truncated" =>
              /\ sf.ret = (PortsIn(sf.before) = MaxPortsThatFit(sf.b.version))
              /\ sf.ret = (sf.offered >= MaxPortsThatFit(sf.b.version))
              /\ TruncLeaves(sf)

\* Every port offered was appended, they fill the message, and the
\* truncation returned true and removed them.
C14_Witness ==
    /\ sf # Idle
    /\ sf.phase = "truncated"
    /\ sf.ret
    /\ sf.offered = PortsIn(sf.before)
    /\ sf.b.size = SizeOf.ofp_switch_features


(***************************************************************************)
(* DECODERS OF WIRE MESSAGES                                               *)
(*                                                                         *)
(* A decoder either returns a value or aborts the process, at a            *)
(* NOT_REACHED() or at an assertion that fails.  What the decoders of the  *)
(* match, the actions and the port record make of the body of a message is *)
(* an input, 'body_error'.                                                 *)
(***************************************************************************)

Returns(ret) == [aborted |-> FALSE, ret |-> ret]
Aborts(at) == [aborted |-> TRUE, ret |-> at]

OFPPR == [ADD |-> 0, DELETE |-> 1, MODIFY |-> 2]
OFPERR_NXBRC_BAD_REASON == "OFPERR_NXBRC_BAD_REASON"
OFPERR_OFPBAC_BAD_LEN == "OFPERR_OFPBAC_BAD_LEN"

\* ofpbuf_pull asserts that the buffer holds the bytes pulled.
OfpbufPull(size, n, then) ==
    IF size >= n THEN then ELSE Aborts("assert(b->size >= size)")

\* enum ofperr ofputil_decode_flow_mod(fm, oh, protocol, ofpacts)
FlowModOfCode(m, code, body_error) ==
    IF code = "OFPUTIL_OFPT11_FLOW_MOD"
    THEN OfpbufPull(m.length, SizeOf.ofp11_flow_mod, Returns(body_error))
    ELSE IF code = "OFPUTIL_OFPT10_FLOW_MOD"
    THEN OfpbufPull(m.length, SizeOf.ofp10_flow_mod, Returns(body_error))
    ELSE IF code = "OFPUTIL_NXT_FLOW_MOD"
    THEN OfpbufPull(m.length, SizeOf.nx_flow_mod, Returns(body_error))
    ELSE Aborts(NOT_REACHED)

ofputil_decode_flow_mod(m, body_error) ==
    FlowModOfCode(m, ofputil_msg_type_code(ofputil_decode_msg_type(m).typep),
                  body_error)

\* int ofputil_pull_phy_port(ofp_version, b, pp), on a buffer of 'size' bytes
ofputil_pull_phy_port(ofp_version, size, body_error) ==
    IF ofp_version = OFP_VERSION.OFP10
    THEN IF size >= SizeOf.ofp10_phy_port THEN body_error ELSE EOF
    ELSE IF size >= SizeOf.ofp11_port THEN body_error ELSE EOF

\* enum ofperr ofputil_decode_port_status(ops, ps)
ofputil_decode_port_status(m, reason, body_error) ==
    IF reason \notin {OFPPR.ADD, OFPPR.DELETE, OFPPR.MODIFY}
    THEN Returns(OFPERR_NXBRC_BAD_REASON)
    ELSE OfpbufPull(m.length, SizeOf.ofp_port_status,
            IF ofputil_pull_phy_port(m.version,
                                     m.length - SizeOf.ofp_port_status,
                                     body_error) = EOF
            THEN Aborts("assert(retval != EOF)")
            ELSE Returns(body_error))

\* enum ofperr ofputil_decode_packet_out(po, oh, ofpacts)
ofputil_decode_packet_out(m, body_error) ==
    IF m.version \in {OFP_VERSION.OFP11, OFP_VERSION.OFP12}
    THEN OfpbufPull(m.length, SizeOf.ofp11_packet_out, Returns(body_error))
    ELSE IF m.version = OFP_VERSION.OFP10
    THEN OfpbufPull(m.length, SizeOf.ofp_packet_out, Returns(body_error))
    ELSE Aborts(NOT_REACHED)

(***************************************************************************)
(* Specification of the decoders: a message of the type that a decoder is  *)
(* for is drawn, of any version and of a length at, below or above the     *)
(* sizes of its type, and the decoder is called on it.                     *)
(***************************************************************************)

\* The lengths drawn: those of the fixed parts, with and without a port
\* record or a body, and lengths that break the size rules.
DecodeLens == {8, 16, 24, 40, 48, 56, 64, 72, 80, 136}

\* The messages drawn for each decoder.
DecodeTypes ==
    [ofputil_decode_flow_mod |-> {<<OFPT10.FLOW_MOD, 0, 0>>,
                                  <<OFPT.VENDOR, NX_VENDOR_ID, NXT.FLOW_MOD>>},
     ofputil_decode_port_status |-> {<<OFPT.PORT_STATUS, 0, 0>>},
     ofputil_decode_packet_out |-> {<<OFPT10.PACKET_OUT, 0, 0>>}]

\* decoder: the decoder the message is for; called: whether it was called;
\* outcome: what it did.
DecodeRun(decoder, m, reason, body_error, called, outcome) ==
    [decoder |-> decoder, m |-> m, reason |-> reason,
     body_error |-> body_error, called |-> called, outcome |-> outcome]

InitDecode ==
    /\ \E decoder \in DOMAIN DecodeTypes, version \in 1..MaxVersion,
          length \in DecodeLens, reason \in {OFPPR.ADD, OFPPR.MODIFY + 1},
          body_error \in {OK, OFPERR_OFPBAC_BAD_LEN} :
          \E t \in DecodeTypes[decoder] :
             dec = DecodeRun(decoder,
                             [version |-> version, type |-> t[1],
                              length |-> length, stat |-> 0,
                              vendor |-> t[2], subtype |-> t[3]],
                             reason, body_error, FALSE, Returns(OK))
    /\ oh = Idle /\ full = Idle /\ part = Idle /\ neg = Idle /\ up = Idle
    /\ fmu = Idle /\ nr = Idle /\ mc = Idle /\ wb = Idle /\ fsr = Idle
    /\ srp = Idle /\ sf = Idle
    /\ xid = Idle
    /\ enc = Idle
    /\ pt = Idle
    /\ pull = Idle
    /\ pki = Idle
    /\ fmr = Idle
    /\ pko = Idle
    /\ pd = Idle
    /\ pmr = Idle

DecodeFlowMod ==
    /\ dec # Idle
    /\ ~dec.called /\ dec.decoder = "ofputil_decode_flow_mod"
    /\ dec' = [dec EXCEPT !.called = TRUE,
                 !.outcome = ofputil_decode_flow_mod(dec.m, dec.body_error)]
    /\ UNCHANGED notDecodeVars

DecodePortStatus ==
    /\ dec # Idle
    /\ ~dec.called /\ dec.decoder = "ofputil_decode_port_status"
    /\ dec' = [dec EXCEPT !.called = TRUE,
                 !.outcome = ofputil_decode_port_status(dec.m, dec.reason,
                                                        dec.body_error)]
    /\ UNCHANGED notDecodeVars

DecodePacketOut ==
    /\ dec # Idle
    /\ ~dec.called /\ dec.decoder = "ofputil_decode_packet_out"
    /\ dec' = [dec EXCEPT !.called = TRUE,
                 !.outcome = ofputil_decode_packet_out(dec.m, dec.body_error)]
    /\ UNCHANGED notDecodeVars

NextDecode == DecodeFlowMod \/ DecodePortStatus \/ DecodePacketOut

SpecDecode == InitDecode /\ [][NextDecode]_vars

(***************************************************************************)
(* Properties of the decoders                                              *)
(***************************************************************************)

\* C15: no decoder aborts the process on wire input: whatever the message,
\* a flow mod whose length breaks the size rule of its type, a port status
\* too short for a port record and a packet out of an unsupported version
\* included, the decoder returns and reaches no NOT_REACHED() and no
\* assertion that fails.
C15_DecodersNeverAbort ==
    dec # Idle /\ dec.called => ~dec.outcome.aborted


(***************************************************************************)
(* TRANSACTION IDS                                                         *)
(*                                                                         *)
(* alloc_xid() is "static uint32_t next_xid = 1; return htonl(next_xid++);"*)
(* with no lock and no atomic operation: a thread reads next_xid and       *)
(* writes it back incremented in two steps, between which other threads    *)
(* may run.                                                                *)
(***************************************************************************)

NumThreads == 2
MaxXidsPerThread == 3

Threads == 1..NumThreads

\* next_xid: the static counter; pc, read: where each thread is in alloc_xid
\* and the value it read; got: the ids each thread was handed, in order.
XidRun(next_xid, pc, read, got) ==
    [next_xid |-> next_xid, pc |-> pc, read |-> read, got |-> got]

InitXid ==
    /\ xid = XidRun(1, [t \in Threads |-> "out"], [t \in Threads |-> 0],
                    [t \in Threads |-> <<>>])
    /\ oh = Idle /\ full = Idle /\ part = Idle /\ neg = Idle /\ up = Idle
    /\ fmu = Idle /\ nr = Idle /\ mc = Idle /\ wb = Idle /\ fsr = Idle
    /\ srp = Idle /\ sf = Idle /\ dec = Idle
    /\ enc = Idle
    /\ pt = Idle
    /\ pull = Idle
    /\ pki = Idle
    /\ fmr = Idle
    /\ pko = Idle
    /\ pd = Idle
    /\ pmr = Idle

\* A thread enters alloc_xid and reads next_xid.
AllocXidRead(t) ==
    /\ xid # Idle
    /\ xid.pc[t] = "out"
    /\ Len(xid.got[t]) < MaxXidsPerThread
    /\ xid' = [xid EXCEPT !.pc[t] = "read", !.read[t] = xid.next_xid]
    /\ UNCHANGED notXidVars

\* The thread writes next_xid back, incremented, and returns what it read.
AllocXidWrite(t) ==
    /\ xid # Idle
    /\ xid.pc[t] = "read"
    /\ xid' = [xid EXCEPT !.pc[t] = "out", !.next_xid = xid.read[t] + 1,
                          !.got[t] = Append(@, xid.read[t])]
    /\ UNCHANGED notXidVars

NextXid == \E t \in Threads : AllocXidRead(t) \/ AllocXidWrite(t)

SpecXid == InitXid /\ [][NextXid]_vars

(***************************************************************************)
(* Properties of transaction ids                                           *)
(***************************************************************************)

\* C16: when several threads build messages through alloc_xid, no two
\* messages receive the same transaction id, and within one thread the ids
\* handed out are strictly increasing, starting at 1.
C16_XidsUniqueAndIncreasing ==
    xid # Idle =>
        /\ \A t, u \in Threads :
              \A i \in 1..Len(xid.got[t]), j \in 1..Len(xid.got[u]) :
                  (t # u \/ i # j) => xid.got[t][i] # xid.got[u][j]
        /\ \A t \in Threads :
              \A i \in 1..Len(xid.got[t]) - 1 :
                  xid.got[t][i] < xid.got[t][i + 1]
        /\ \A t \in Threads : \A i \in 1..Len(xid.got[t]) : xid.got[t][i] >= 1


(***************************************************************************)
(* ENCODERS                                                                *)
(*                                                                         *)
(* A buffer is its size and the length field of its header.  A match is    *)
(* its length in NXM format, the actions are their length on the wire, and *)
(* a packet is its length.                                                 *)
(***************************************************************************)

Buf(size, length) == [size |-> size, length |-> length]

ofputil_protocol_to_ofp_version(protocol) ==
    IF protocol = "OF12" THEN OFP_VERSION.OFP12 ELSE OFP_VERSION.OFP10

\* put_openflow_xid on an empty buffer, and so put_openflow, make_openflow,
\* make_openflow_xid, make_nxmsg and put_nxmsg: the header length is the
\* length put.
put_openflow_xid(openflow_len) == Buf(openflow_len, openflow_len)

ofpbuf_put(b, n) == [b EXCEPT !.size = @ + n]

\* put_stats__ puts the stats header; ofputil_make_stats_request then puts
\* 'body_len' bytes of zeros.
put_stats__(ofp_version, ofpst_type) ==
    IF ofpst_type = OFPST.VENDOR
    THEN put_openflow_xid(SizeOf.nicira10_stats_msg)
    ELSE IF ofp_version = OFP_VERSION.OFP10
    THEN put_openflow_xid(SizeOf.ofp10_stats_msg)
    ELSE put_openflow_xid(SizeOf.ofp11_stats_msg)

ofputil_make_stats_request(body_len, ofp_version, ofpst_type) ==
    ofpbuf_put(put_stats__(ofp_version, ofpst_type), body_len)

\* nx_put_match pads the match to a multiple of 8 bytes, the match header
\* of OpenFlow 1.2 included.
ofputil_put_match(msg, match_len, protocol) ==
    IF protocol \in OFPUTIL_P_NXM_ANY
    THEN ofpbuf_put(msg, ROUND_UP(match_len, 8))
    ELSE ofpbuf_put(msg, ROUND_UP(Ofp11MatchSize.ofp11_match_header
                                  + match_len, 8))

ofputil_encode_flow_mod(match_len, ofpacts_len, protocol) ==
    update_openflow_length(
        IF protocol = "OF12"
        THEN ofpbuf_put(ofputil_put_match(put_openflow_xid(SizeOf.ofp11_flow_mod),
                                          match_len, protocol), ofpacts_len)
        ELSE IF protocol \in OFPUTIL_P_OF10_ANY
        THEN ofpbuf_put(put_openflow_xid(SizeOf.ofp10_flow_mod), ofpacts_len)
        ELSE ofpbuf_put(ofputil_put_match(put_openflow_xid(SizeOf.nx_flow_mod),
                                          match_len, "NXM"), ofpacts_len))

ofputil_encode_flow_stats_request(match_len, protocol) ==
    IF protocol = "OF12"
    THEN ofputil_put_match(
            ofputil_make_stats_request(SizeOf.ofp11_flow_stats_request,
                ofputil_protocol_to_ofp_version(protocol), OFPST.FLOW),
            match_len, protocol)
    ELSE IF protocol \in OFPUTIL_P_OF10_ANY
    THEN ofputil_make_stats_request(SizeOf.ofp10_flow_stats_request,
            ofputil_protocol_to_ofp_version(protocol), OFPST.FLOW)
    ELSE ofputil_put_match(
            ofputil_make_stats_request(SizeOf.nx_flow_stats_request,
                ofputil_protocol_to_ofp_version(protocol), OFPST.VENDOR),
            match_len, "NXM")

ofputil_encode_flow_removed(match_len, protocol) ==
    IF protocol = "OF12"
    THEN ofputil_put_match(put_openflow_xid(SizeOf.ofp12_flow_removed),
                           match_len, protocol)
    ELSE IF protocol \in OFPUTIL_P_OF10_ANY
    THEN put_openflow_xid(SizeOf.ofp_flow_removed)
    ELSE ofpbuf_put(put_openflow_xid(SizeOf.nx_flow_removed),
                    ROUND_UP(match_len, 8))

NXPIF == {"NXPIF_OPENFLOW10", "NXPIF_NXM"}

\* The buffer of ofputil_encode_packet_in_tail: the zeroed header, the match
\* of the metadata, two bytes of padding and the packet.
ofputil_encode_packet_in_tail(match_len, send_len, hdr_len, protocol) ==
    ofpbuf_put(ofpbuf_put(ofputil_put_match(Buf(hdr_len, 0), match_len,
                                            protocol), 2), send_len)

ofputil_encode_packet_in(match_len, send_len, protocol, packet_in_format) ==
    update_openflow_length(
        IF protocol = "OF12"
        THEN ofputil_encode_packet_in_tail(match_len, send_len,
                                           SizeOf.ofp11_packet_in, "OF12")
        ELSE IF packet_in_format = "NXPIF_OPENFLOW10"
        THEN ofpbuf_put(Buf(SizeOf.ofp_packet_in_data, 0), send_len)
        ELSE ofputil_encode_packet_in_tail(match_len, send_len,
                                           SizeOf.nx_packet_in, "NXM"))

ofputil_encode_packet_out(ofpacts_len, packet_len, protocol) ==
    update_openflow_length(
        ofpbuf_put(ofpbuf_put(
            IF ofputil_protocol_to_ofp_version(protocol) = OFP_VERSION.OFP10
            THEN put_openflow_xid(SizeOf.ofp_packet_out)
            ELSE put_openflow_xid(SizeOf.ofp11_packet_out),
            ofpacts_len), packet_len))

ofputil_encode_port_status(protocol) ==
    update_openflow_length(
        ofputil_put_phy_port(ofputil_protocol_to_ofp_version(protocol),
            [version |-> ofputil_protocol_to_ofp_version(protocol),
             size |-> SizeOf.ofp_port_status,
             length |-> SizeOf.ofp_port_status]))

ofputil_encode_port_mod(protocol) ==
    IF ofputil_protocol_to_ofp_version(protocol) = OFP_VERSION.OFP10
    THEN put_openflow_xid(SizeOf.ofp10_port_mod)
    ELSE put_openflow_xid(SizeOf.ofp11_port_mod)

\* The buffer of the message that ofputil_encode_set_protocol returns: an
\* NXT_SET_FLOW_FORMAT when the base changes, else an NXT_FLOW_MOD_TABLE_ID.
SetProtocolBuf(current, want) ==
    IF ofputil_protocol_to_base(current) # ofputil_protocol_to_base(want)
    THEN put_openflow_xid(SizeOf.nx_set_flow_format)
    ELSE put_openflow_xid(SizeOf.nx_flow_mod_table_id)

(***************************************************************************)
(* Specification of the encoders: a protocol, a match, actions and a       *)
(* packet are drawn and an encoder is called on them.                      *)
(***************************************************************************)

\* The NXM lengths of the matches, the lengths of the actions and of the
\* packets drawn.
EncodeMatchLens == {0, 4, 16}
EncodeBodyLens == {0, 8, 64}

\* encoder: the encoder called, "none" before the call; b: the buffer that
\* it returned.
EncodeRun(protocol, match_len, body_len, encoder, b) ==
    [protocol |-> protocol, match_len |-> match_len, body_len |-> body_len,
     encoder |-> encoder, b |-> b]

AfterEncode(run, encoder, b) ==
    EncodeRun(run.protocol, run.match_len, run.body_len, encoder, b)

InitEncode ==
    /\ \E protocol \in OFPUTIL_P_ANY, match_len \in EncodeMatchLens,
          body_len \in EncodeBodyLens :
          enc = EncodeRun(protocol, match_len, body_len, "none", Buf(0, 0))
    /\ oh = Idle /\ full = Idle /\ part = Idle /\ neg = Idle /\ up = Idle
    /\ fmu = Idle /\ nr = Idle /\ mc = Idle /\ wb = Idle /\ fsr = Idle
    /\ srp = Idle /\ sf = Idle /\ dec = Idle /\ xid = Idle
    /\ pt = Idle
    /\ pull = Idle
    /\ pki = Idle
    /\ fmr = Idle
    /\ pko = Idle
    /\ pd = Idle
    /\ pmr = Idle

ToEncode == enc # Idle /\ enc.encoder = "none"

EncodeFlowMod ==
    /\ ToEncode
    /\ enc' = AfterEncode(enc, "ofputil_encode_flow_mod",
                 ofputil_encode_flow_mod(enc.match_len, enc.body_len,
                                         enc.protocol))
    /\ UNCHANGED notEncodeVars

EncodeFlowStatsRequest ==
    /\ ToEncode
    /\ enc' = AfterEncode(enc, "ofputil_encode_flow_stats_request",
                 ofputil_encode_flow_stats_request(enc.match_len, enc.protocol))
    /\ UNCHANGED notEncodeVars

EncodeFlowRemoved ==
    /\ ToEncode
    /\ enc' = AfterEncode(enc, "ofputil_encode_flow_removed",
                 ofputil_encode_flow_removed(enc.match_len, enc.protocol))
    /\ UNCHANGED notEncodeVars

EncodePacketIn ==
    /\ ToEncode
    /\ \E packet_in_format \in NXPIF :
          enc' = AfterEncode(enc, "ofputil_encode_packet_in",
                    ofputil_encode_packet_in(enc.match_len, enc.body_len,
                                             enc.protocol, packet_in_format))
    /\ UNCHANGED notEncodeVars

EncodePacketOut ==
    /\ ToEncode
    /\ \E packet_len \in EncodeBodyLens :
          enc' = AfterEncode(enc, "ofputil_encode_packet_out",
                    ofputil_encode_packet_out(enc.body_len, packet_len,
                                              enc.protocol))
    /\ UNCHANGED notEncodeVars

EncodePortStatus ==
    /\ ToEncode
    /\ enc' = AfterEncode(enc, "ofputil_encode_port_status",
                 [size |-> ofputil_encode_port_status(enc.protocol).size,
                  length |-> ofputil_encode_port_status(enc.protocol).length])
    /\ UNCHANGED notEncodeVars

EncodePortMod ==
    /\ ToEncode
    /\ enc' = AfterEncode(enc, "ofputil_encode_port_mod",
                 ofputil_encode_port_mod(enc.protocol))
    /\ UNCHANGED notEncodeVars

EncodeSetProtocolBuffer ==
    /\ ToEncode
    /\ \E want \in OFPUTIL_P_ANY \ {enc.protocol} :
          enc' = AfterEncode(enc, "ofputil_encode_set_protocol",
                         SetProtocolBuf(enc.protocol, want))
    /\ UNCHANGED notEncodeVars

NextEncode ==
    \/ EncodeFlowMod
    \/ EncodeFlowStatsRequest
    \/ EncodeFlowRemoved
    \/ EncodePacketIn
    \/ EncodePacketOut
    \/ EncodePortStatus
    \/ EncodePortMod
    \/ EncodeSetProtocolBuffer

SpecEncode == InitEncode /\ [][NextEncode]_vars

(***************************************************************************)
(* Properties of the encoders                                              *)
(***************************************************************************)

\* C17: every buffer that an encoder returns has the length field of its
\* header equal to its size, in every dialect, those that put a match of
\* variable length after the fixed part included.
C17_EncodedLengthIsSize ==
    enc # Idle /\ enc.encoder # "none" => enc.b.length = enc.b.size


(***************************************************************************)
(* Specification of the port number mapping: a 16-bit port is converted to *)
(* OpenFlow 1.1 and back, or a 32-bit OpenFlow 1.1 port is converted.      *)
(***************************************************************************)

\* OFPP11_MAX is 0xffffff00 and OFPP11_OFFSET is OFPP11_MAX - OFPP_MAX.
OFPP11_MAX == U32(UINT16_MAX, OFPP_MAX)
OFPP11_OFFSET == U32(UINT16_MAX, 0)

U32Less(x, y) == x[1] < y[1] \/ (x[1] = y[1] /\ x[2] < y[2])

\* x - y modulo 2^32
U32Sub(x, y) ==
    IF x[2] >= y[2] THEN U32((x[1] - y[1] + 2^16) % 2^16, x[2] - y[2])
    ELSE U32((x[1] - y[1] - 1 + 2^17) % 2^16, x[2] - y[2] + 2^16)

\* How far from 0, OFPP_MAX and 0xffff the 16-bit values drawn lie.
PortProbe == 8

Halves ==
    (0..PortProbe) \cup ((OFPP_MAX - PortProbe)..(OFPP_MAX + PortProbe))
    \cup ((UINT16_MAX - PortProbe)..UINT16_MAX)

\* The high halves of the 32-bit ports drawn.
HighHalves == {0, 1, UINT16_MAX - 1, UINT16_MAX}

\* ofp10_port: the 16-bit port drawn, ofp11_port: the 32-bit port, drawn or
\* converted; from: what ofputil_port_from_ofp11 made of it; calls: the
\* conversions done.
PortRun(kind, ofp10_port, ofp11_port, from, calls) ==
    [kind |-> kind, ofp10_port |-> ofp10_port, ofp11_port |-> ofp11_port,
     from |-> from, calls |-> calls]

NoPort == [error |-> OK, ofp10_port |-> 0]

InitPort ==
    /\ \/ \E p \in Halves : pt = PortRun("ofp10", p, U32_ZERO, NoPort, 0)
       \/ \E hi \in HighHalves, lo \in Halves :
             pt = PortRun("ofp11", 0, U32(hi, lo), NoPort, 0)
    /\ oh = Idle /\ full = Idle /\ part = Idle /\ neg = Idle /\ up = Idle
    /\ fmu = Idle /\ nr = Idle /\ mc = Idle /\ wb = Idle /\ fsr = Idle
    /\ srp = Idle /\ sf = Idle /\ dec = Idle /\ xid = Idle /\ enc = Idle
    /\ pull = Idle
    /\ pki = Idle
    /\ fmr = Idle
    /\ pko = Idle
    /\ pd = Idle
    /\ pmr = Idle

PortToOfp11 ==
    /\ pt # Idle
    /\ pt.kind = "ofp10" /\ pt.calls = 0
    /\ pt' = [pt EXCEPT !.ofp11_port = ofputil_port_to_ofp11(pt.ofp10_port),
                        !.calls = 1]
    /\ UNCHANGED notPortVars

PortFromOfp11 ==
    /\ pt # Idle
    /\ \/ pt.kind = "ofp10" /\ pt.calls = 1
       \/ pt.kind = "ofp11" /\ pt.calls = 0
    /\ pt' = [pt EXCEPT !.from = ofputil_port_from_ofp11(pt.ofp11_port),
                        !.calls = @ + 1]
    /\ UNCHANGED notPortVars

NextPort == PortToOfp11 \/ PortFromOfp11

SpecPort == InitPort /\ [][NextPort]_vars

(***************************************************************************)
(* Properties of the port number mapping                                   *)
(***************************************************************************)

\* What the mapping says of the 32-bit port v: an error between OFPP_MAX and
\* OFPP11_MAX, v itself below OFPP_MAX, and v - OFPP11_OFFSET, which fits 16
\* bits, from OFPP11_MAX on.
MappedFromOfp11(v, from) ==
    IF U32Less(v, U32(0, OFPP_MAX))
    THEN from.error = OK /\ U32(0, from.ofp10_port) = v
    ELSE IF U32Less(v, OFPP11_MAX)
    THEN from.error # OK
    ELSE /\ from.error = OK
         /\ U32(0, from.ofp10_port) = U32Sub(v, OFPP11_OFFSET)
         /\ from.ofp10_port <= UINT16_MAX

\* C18: a 16-bit port converted by ofputil_port_to_ofp11 and back by
\* ofputil_port_from_ofp11 is the same port, with no error; and
\* ofputil_port_from_ofp11 returns an error exactly for the 32-bit ports v
\* with OFPP_MAX <= v < OFPP11_MAX, v itself for v < OFPP_MAX, and
\* v - OFPP11_OFFSET, which fits 16 bits, for the others.
C18_PortMapping ==
    pt # Idle =>
        /\ pt.kind = "ofp10" /\ pt.calls = 2 =>
              pt.from.error = OK /\ pt.from.ofp10_port = pt.ofp10_port
        /\ pt.kind = "ofp11" /\ pt.calls = 1 =>
              MappedFromOfp11(pt.ofp11_port, pt.from)

\* A reserved port (OFPP_MAX or above) went to OpenFlow 1.1 and back.
C18_Witness ==
    /\ pt # Idle
    /\ pt.kind = "ofp10" /\ pt.calls = 2
    /\ pt.ofp10_port >= OFPP_MAX
    /\ pt.ofp11_port[1] = UINT16_MAX
    /\ pt.from.ofp10_port = pt.ofp10_port


(***************************************************************************)
(* Properties of normalization: the field groups left to match             *)
(***************************************************************************)

IsIcmpv6Nd(flow, type) ==
    /\ flow.dl_type = ETH_TYPE.IPV6
    /\ flow.nw_proto = IPPROTO.ICMPV6
    /\ flow.tp_src = type

\* The groups of network, transport, IPv6, neighbor discovery, ARP and MPLS
\* fields that 'wc' leaves to match are valid for the protocols of 'flow'.
ValidGroupsOnly(flow, wc) ==
    /\ wc.nw_src_mask # U32_ZERO \/ wc.nw_dst_mask # U32_ZERO =>
          flow.dl_type \in {ETH_TYPE.IP, ETH_TYPE.ARP}
    /\ "NW_PROTO" \notin wc.wildcards =>
          flow.dl_type \in {ETH_TYPE.IP, ETH_TYPE.ARP, ETH_TYPE.IPV6}
    /\ wc.tp_src_mask # 0 \/ wc.tp_dst_mask # 0 =>
          \/ /\ flow.dl_type = ETH_TYPE.IP
             /\ flow.nw_proto \in {IPPROTO.TCP, IPPROTO.UDP, IPPROTO.ICMP}
          \/ /\ flow.dl_type = ETH_TYPE.IPV6
             /\ flow.nw_proto \in {IPPROTO.TCP, IPPROTO.UDP, IPPROTO.ICMPV6}
    /\ {"NW_DSCP", "NW_ECN", "NW_TTL"} \ wc.wildcards # {} =>
          flow.dl_type \in {ETH_TYPE.IP, ETH_TYPE.IPV6}
    /\ \/ wc.ipv6_src_mask # 0 \/ wc.ipv6_dst_mask # 0
       \/ "IPV6_LABEL" \notin wc.wildcards
       => flow.dl_type = ETH_TYPE.IPV6
    /\ wc.nd_target_mask # 0 =>
          \/ IsIcmpv6Nd(flow, ND.NEIGHBOR_SOLICIT)
          \/ IsIcmpv6Nd(flow, ND.NEIGHBOR_ADVERT)
    /\ "ARP_SHA" \notin wc.wildcards =>
          \/ flow.dl_type = ETH_TYPE.ARP
          \/ IsIcmpv6Nd(flow, ND.NEIGHBOR_SOLICIT)
    /\ "ARP_THA" \notin wc.wildcards =>
          \/ flow.dl_type = ETH_TYPE.ARP
          \/ IsIcmpv6Nd(flow, ND.NEIGHBOR_ADVERT)
    /\ {"MPLS_LABEL", "MPLS_TC", "MPLS_STACK"} \ wc.wildcards # {} =>
          flow.dl_type \in {ETH_TYPE.MPLS, ETH_TYPE.MPLS_MCAST}

\* The QinQ VID and PCP are left to match only under a VLAN TPID and with an
\* inner TCI that is not zero.
QinqOnlyWhenTagged(flow, wc) ==
    {"VLAN_QINQ_VID", "VLAN_QINQ_PCP"} \ wc.wildcards # {} =>
        /\ flow.vlan_tpid \in {ETH_TYPE.VLAN, ETH_TYPE.VLAN_8021AD}
        /\ flow.vlan_qinq_tci # 0

\* C19: after ofputil_normalize_rule, every group of fields that is not
\* valid for the protocols of the rule is wildcarded: the network, transport,
\* IPv6, neighbor discovery, ARP and MPLS fields, and the QinQ VID and PCP
\* unless the TPID is 0x8100 or 0x88a8 and the inner TCI is not zero.
C19_InvalidGroupsWildcarded ==
    nr # Idle /\ nr.after # <<>> =>
        /\ ValidGroupsOnly(nr.given.flow, nr.after[1].wc)
        /\ QinqOnlyWhenTagged(nr.given.flow, nr.after[1].wc)

\* The part of C19 that the code keeps: everything but the QinQ fields.
NormalizedButQinq ==
    nr # Idle /\ nr.after # <<>> =>
        ValidGroupsOnly(nr.given.flow, nr.after[1].wc)


(***************************************************************************)
(* Properties of the OpenFlow 1.0 match conversion: the VLAN PCP           *)
(***************************************************************************)

\* An OpenFlow 1.0 match that wildcards the VLAN ID and matches the PCP 3
\* has been decoded.
DecodedPcpOnly(c) ==
    /\ c # Idle /\ c.format = "OF10" /\ c.decoded # NotCalled
    /\ Has(c.match.wildcards, OFPFW10.DL_VLAN)
    /\ ~Has(c.match.wildcards, OFPFW10.DL_VLAN_PCP)
    /\ c.match.dl_vlan_pcp = 3

\* C20 as stated: an OpenFlow 1.0 match with the VLAN ID wildcarded and the
\* PCP 3 matched decodes to vlan_tci = (3 << 13) | CFI with a mask of the PCP
\* bits only.
C20_PcpMaskIsPcpBitsOnly ==
    DecodedPcpOnly(mc) =>
        /\ mc.decoded.rule.flow.vlan_tci = 3 * 2^(VLAN.PCP_SHIFT) + VLAN.CFI
        /\ mc.decoded.rule.wc.vlan_tci_mask = VLAN.PCP_MASK

\* C20, amended: an OpenFlow 1.0 match with the VLAN ID wildcarded and the
\* PCP 3 matched decodes to vlan_tci = (3 << 13) | CFI with a mask of the PCP
\* bits and the CFI bit, and of no VID bit.
C20_PcpMaskIsPcpAndCfi ==
    DecodedPcpOnly(mc) =>
        /\ mc.decoded.rule.flow.vlan_tci = 3 * 2^(VLAN.PCP_SHIFT) + VLAN.CFI
        /\ mc.decoded.rule.wc.vlan_tci_mask = VLAN.PCP_MASK + VLAN.CFI
        /\ BitAnd(mc.decoded.rule.wc.vlan_tci_mask, VLAN.VID_MASK) = 0

\* Such a match, with a VLAN ID that is wildcarded and not zero, has been
\* decoded.
C20_Witness ==
    /\ DecodedPcpOnly(mc)
    /\ mc.match.dl_vlan # 0
    /\ mc.decoded.rule.flow.vlan_tci # 0


(***************************************************************************)
(* PULLING AN OPENFLOW 1.1/1.2 MATCH                                       *)
(*                                                                         *)
(* __ofputil_pull_ofp11_match() looks at the envelope (struct              *)
(* ofp11_match_header: type and length) at the front of a buffer and       *)
(* decodes the match behind it, a standard match or an OXM one.            *)
(***************************************************************************)

\* enum ofp11_match_type, and the errors of a bad match.
OFPMT == [STANDARD |-> 0, OXM |-> 1]
OFPERR_OFPBMC ==
    [BAD_LEN |-> "OFPERR_OFPBMC_BAD_LEN", BAD_TYPE |-> "OFPERR_OFPBMC_BAD_TYPE"]

\* A buffer with a match at its front: 'size' bytes are there; 'type' and
\* 'length' are what the first four bytes say, 'om' the members of the
\* standard match that the first 88 bytes make up.
MatchBuf(size, type, length, om) ==
    [size |-> size, type |-> type, length |-> length, om |-> om]

\* The outcome of a pull: the error returned, the bytes left in the buffer,
\* what was stored through 'padded_match_len' (nothing, or one value), and
\* the part of the buffer that was read behind the envelope.
Pulled(error, size, padded_match_len, read) ==
    [error |-> error, size |-> size, padded_match_len |-> padded_match_len,
     read |-> read]

\* nx_padded_match_len(match_len, header_len), and nx_pull_match(b,
\* match_len, header_len, ...): the match and its padding must be in the
\* buffer, and then 'nx_error' is what the fields decode to.  A declared
\* length shorter than the envelope makes match_len wrap around, to more
\* than any buffer holds.
nx_padded_match_len(match_len, header_len) ==
    ROUND_UP(match_len + header_len, 8) - header_len

nx_pull_match(size, match_len, header_len, nx_error) ==
    IF match_len < 0 \/ nx_padded_match_len(match_len, header_len) > size
    THEN [error |-> OFPERR_OFPBMC.BAD_LEN, size |-> size]
    ELSE [error |-> nx_error,
          size |-> size - nx_padded_match_len(match_len, header_len)]

\* The mutation: a standard match is pulled whenever its declared length is
\* right, whatever the buffer holds.
pull_standard_unchecked(buf, stores, priority) ==
    IF buf.length # Ofp11MatchSize.ofp11_match
    THEN Pulled(OFPERR_OFPBMC.BAD_LEN, buf.size, {}, "nothing")
    ELSE Pulled(ofputil_cls_rule_from_ofp11_match(buf.om, priority).error,
                buf.size - Ofp11MatchSize.ofp11_match,
                IF stores THEN {buf.length} ELSE {}, "ofp11_match")

\* __ofputil_pull_ofp11_match, case OFPMT_STANDARD
PullStandard(buf, stores, priority) ==
    IF \/ buf.length # Ofp11MatchSize.ofp11_match
       \/ buf.size < Ofp11MatchSize.ofp11_match
    THEN Pulled(OFPERR_OFPBMC.BAD_LEN, buf.size, {}, "nothing")
    ELSE Pulled(ofputil_cls_rule_from_ofp11_match(buf.om, priority).error,
                buf.size - Ofp11MatchSize.ofp11_match,
                IF stores THEN {buf.length} ELSE {}, "ofp11_match")

\* What nx_pull_match leaves of the buffer behind the envelope.
PulledOxm(buf, stores, pulled) ==
    Pulled(pulled.error, pulled.size,
           IF stores THEN {ROUND_UP(buf.length, 8)} ELSE {}, "oxm")

\* The mutation: an OXM match is decoded whatever the maximum version is.
pull_oxm_any_version(buf, stores, max_version, nx_error) ==
    PulledOxm(buf, stores,
              nx_pull_match(buf.size - Ofp11MatchSize.ofp11_match_header,
                            buf.length - Ofp11MatchSize.ofp11_match_header,
                            Ofp11MatchSize.ofp11_match_header, nx_error))

\* __ofputil_pull_ofp11_match, case OFPMT_OXM
PullOxm(buf, stores, max_version, nx_error) ==
    IF max_version < OFP_VERSION.OFP12
    THEN Pulled(OFPERR_OFPBMC.BAD_TYPE, buf.size, {}, "nothing")
    ELSE PulledOxm(buf, stores,
              nx_pull_match(buf.size - Ofp11MatchSize.ofp11_match_header,
                            buf.length - Ofp11MatchSize.ofp11_match_header,
                            Ofp11MatchSize.ofp11_match_header, nx_error))

\* enum ofperr __ofputil_pull_ofp11_match(buf, priority, rule, cookie,
\*                                        cookie_mask, padded_match_len,
\*                                        max_version)
\* 'stores' is padded_match_len != NULL.
ofputil_pull_ofp11_match__(buf, stores, max_version, nx_error) ==
    IF buf.size < Ofp11MatchSize.ofp11_match_header
    THEN Pulled(OFPERR_OFPBMC.BAD_LEN, buf.size, {}, "nothing")
    ELSE CASE buf.type = OFPMT.STANDARD -> PullStandard(buf, stores, PRIORITY)
           [] buf.type = OFPMT.OXM ->
                PullOxm(buf, stores, max_version, nx_error)
           [] OTHER -> Pulled(OFPERR_OFPBMC.BAD_TYPE, buf.size, {}, "nothing")

\* enum ofperr ofputil_pull_ofp11_match(buf, priority, rule)
ofputil_pull_ofp11_match(buf, nx_error) ==
    ofputil_pull_ofp11_match__(buf, FALSE, OFP_VERSION.OFP11, nx_error)

\* enum ofperr ofputil_pull_ofp12_match(buf, priority, rule, cookie,
\*                                      cookie_mask, padded_match_len)
\* 'stores' is padded_match_len != NULL.
ofputil_pull_ofp12_match(buf, stores, nx_error) ==
    ofputil_pull_ofp11_match__(buf, stores, OFP_VERSION.OFP12, nx_error)

(***************************************************************************)
(* Specification of the pull of a match.  A buffer is drawn: what it       *)
(* holds, what its envelope declares, the members of its standard match    *)
(* and what its OXM fields decode to.  One of the two callers then pulls   *)
(* the match off it.                                                       *)
(***************************************************************************)

PullSizes == {0, 2, 4, 44, 88, 96, 104}
PullTypes == {OFPMT.STANDARD, OFPMT.OXM, 2, UINT16_MAX}
PullLengths == {0, 4, 44, 88, 90, 96}
PullMatches ==
    {ofp11_match_any,
     [ofp11_match_any EXCEPT !.metadata_mask = <<0, 0, 0, 0>>],
     [ofp11_match_any EXCEPT !.wildcards = 2^10 - 1 - OFPFW11.DL_TYPE,
                             !.dl_type = ETH_TYPE.IP]}
NxErrors == {OK, "OFPERR_OFPBMC_BAD_FIELD"}

\* buf: the buffer drawn; nx_error: what its OXM fields decode to;
\* max_version: 0 before the pull, then the caller's; out: the outcome.
PullRun(buf, nx_error, max_version, out) ==
    [buf |-> buf, nx_error |-> nx_error, max_version |-> max_version,
     out |-> out]

InitPull ==
    /\ \E size \in PullSizes, type \in PullTypes, length \in PullLengths,
          om \in PullMatches, nx_error \in NxErrors :
          pull = PullRun(MatchBuf(size, type, length, om), nx_error, 0,
                         NotCalled)
    /\ oh = Idle /\ full = Idle /\ part = Idle /\ neg = Idle /\ up = Idle
    /\ fmu = Idle /\ nr = Idle /\ mc = Idle /\ wb = Idle /\ fsr = Idle
    /\ srp = Idle /\ sf = Idle /\ dec = Idle /\ xid = Idle /\ enc = Idle
    /\ pt = Idle
    /\ pki = Idle
    /\ fmr = Idle
    /\ pko = Idle
    /\ pd = Idle
    /\ pmr = Idle

PullOfp11Match ==
    /\ pull # Idle /\ pull.out = NotCalled
    /\ pull' = PullRun(pull.buf, pull.nx_error, OFP_VERSION.OFP11,
                       ofputil_pull_ofp11_match(pull.buf, pull.nx_error))
    /\ UNCHANGED notPullVars

PullOfp12Match ==
    /\ pull # Idle /\ pull.out = NotCalled
    /\ \E stores \in BOOLEAN :
          pull' = PullRun(pull.buf, pull.nx_error, OFP_VERSION.OFP12,
                          ofputil_pull_ofp12_match(pull.buf, stores,
                                                   pull.nx_error))
    /\ UNCHANGED notPullVars

NextPull ==
    \/ PullOfp11Match
    \/ PullOfp12Match

SpecPull == InitPull /\ [][NextPull]_vars

(***************************************************************************)
(* Properties of the pull of a match                                       *)
(***************************************************************************)

PullDone == pull # Idle /\ pull.out # NotCalled

\* The envelope is one that the pull must refuse for its length.
BadEnvelopeLength(buf) ==
    \/ buf.size < 4
    \/ /\ buf.type = OFPMT.STANDARD
       /\ buf.length # 88 \/ buf.size < 88

\* C21: a pull from a buffer with fewer than 4 bytes, or with a STANDARD
\* envelope whose declared length is not 88 or that holds fewer than 88
\* bytes, returns BadLength, reads no match field and leaves every byte in
\* the buffer; a pull of an envelope that is neither STANDARD nor OXM
\* returns BadType.
C21_EnvelopeValidatedFirst ==
    PullDone =>
        /\ BadEnvelopeLength(pull.buf) =>
              /\ pull.out.error = "OFPERR_OFPBMC_BAD_LEN"
              /\ pull.out.read = "nothing"
              /\ pull.out.size = pull.buf.size
        /\ (pull.buf.size >= 4 /\ pull.buf.type \notin {OFPMT.STANDARD, OFPMT.OXM}) =>
              pull.out.error = "OFPERR_OFPBMC_BAD_TYPE"

\* A STANDARD envelope declaring 44 bytes, in a buffer that holds the 88
\* bytes of a standard match, was refused with BadLength.
C21_Witness ==
    /\ PullDone
    /\ pull.buf.type = OFPMT.STANDARD /\ pull.buf.length = 44
    /\ pull.buf.size = 88
    /\ pull.out.error = "OFPERR_OFPBMC_BAD_LEN"


\* An envelope that a pull can dispatch on: it is all there, and its type
\* is one of the two known ones.
Dispatched(buf) ==
    buf.size >= 4 /\ buf.type \in {OFPMT.STANDARD, OFPMT.OXM}

\* C22 as stated: a match of either type is decoded only when the maximum
\* version is at least OpenFlow 1.2, and below that the pull returns
\* BadType.
C22_BothTypesGated ==
    PullDone =>
        /\ pull.out.read # "nothing" => pull.max_version >= OFP_VERSION.OFP12
        /\ (Dispatched(pull.buf) /\ pull.max_version < OFP_VERSION.OFP12) =>
              pull.out.error = "OFPERR_OFPBMC_BAD_TYPE"

\* C22: only the OXM type is gated on the maximum version.  An OXM match is
\* decoded only when the maximum version is at least OpenFlow 1.2, and
\* below that the pull returns BadType and reads nothing; a STANDARD match
\* with a well-formed envelope is decoded as a standard match whatever the
\* maximum version is.
C22_OnlyOxmGated ==
    PullDone =>
        /\ pull.out.read = "oxm" => pull.max_version >= OFP_VERSION.OFP12
        /\ (pull.buf.size >= 4 /\ pull.buf.type = OFPMT.OXM
            /\ pull.max_version < OFP_VERSION.OFP12) =>
              /\ pull.out.error = "OFPERR_OFPBMC_BAD_TYPE"
              /\ pull.out.read = "nothing"
              /\ pull.out.size = pull.buf.size
        /\ (pull.buf.type = OFPMT.STANDARD /\ ~BadEnvelopeLength(pull.buf)) =>
              /\ pull.out.read = "ofp11_match"
              /\ pull.out.size = pull.buf.size - 88

\* An OXM match whose fields decode was pulled with OpenFlow 1.1 as the
\* maximum version, and refused with BadType.
C22_Witness ==
    /\ PullDone
    /\ pull.max_version = OFP_VERSION.OFP11
    /\ pull.buf.type = OFPMT.OXM /\ pull.buf.size >= pull.buf.length
    /\ pull.buf.length >= 4 /\ pull.nx_error = OK
    /\ pull.out.error = "OFPERR_OFPBMC_BAD_TYPE"


(***************************************************************************)
(* Properties of the transport ports and the metadata of an OpenFlow 1.1   *)
(* standard match                                                          *)
(***************************************************************************)

\* An OpenFlow 1.1 match was drawn and decoded.
Decoded11 == mc # Idle /\ mc.format = "OF11" /\ mc.decoded # NotCalled

\* The wire match asks for IPv4, and the protocol it asks for (0 when the
\* protocol is wildcarded, which the decoder leaves in the rule).
WireIpv4(m) == ~Has(m.wildcards % 2^16, OFPFW11.DL_TYPE) /\ m.dl_type = ETH_TYPE.IP
WireNwProto(m) ==
    IF Has(m.wildcards % 2^16, OFPFW11.NW_PROTO) THEN 0 ELSE m.nw_proto
WireIpv4Sctp(m) == WireIpv4(m) /\ WireNwProto(m) = IPPROTO.SCTP
BothPortsWildcarded(m) ==
    /\ Has(m.wildcards % 2^16, OFPFW11.TP_SRC)
    /\ Has(m.wildcards % 2^16, OFPFW11.TP_DST)

\* Nothing but the protocol and the metadata mask can be wrong with the
\* match: it decodes once they are set to an unknown protocol and to
\* all-ones.
ValidBut(m) ==
    ofputil_cls_rule_from_ofp11_match(
        [m EXCEPT !.nw_proto = 253, !.metadata_mask = UINT64_MAX],
        PRIORITY).error = OK

\* For a protocol without ports the transport-port bits are ignored and
\* both ports stay wildcarded; a metadata mask that is not all-ones is
\* rejected, with BadField when nothing else is wrong.
PortsIgnoredAndMetadataRejected(m, decoded) ==
    /\ (/\ WireIpv4(m)
        /\ WireNwProto(m) \notin {IPPROTO.TCP, IPPROTO.UDP, IPPROTO.ICMP,
                                  IPPROTO.SCTP}
        /\ m.metadata_mask = UINT64_MAX /\ ValidBut(m)) =>
          /\ decoded.error = OK
          /\ decoded.rule.wc.tp_src_mask = 0
          /\ decoded.rule.wc.tp_dst_mask = 0
    /\ m.metadata_mask # UINT64_MAX =>
          /\ decoded.error # OK
          /\ (ValidBut(m) /\ ~WireIpv4Sctp(m)) =>
                decoded.error = "OFPERR_OFPBMC_BAD_FIELD"

\* C23 as stated: an IPv4 match whose nw_proto is SCTP is rejected with
\* BadField whatever its transport-port wildcard bits are; for a protocol
\* without ports the bits are ignored; a metadata mask that is not all-ones
\* is rejected with BadField.
C23_SctpAlwaysRejected ==
    Decoded11 =>
        /\ (WireIpv4Sctp(mc.match) /\ ValidBut(mc.match)) =>
              mc.decoded.error = "OFPERR_OFPBMC_BAD_FIELD"
        /\ PortsIgnoredAndMetadataRejected(mc.match, mc.decoded)

\* C23: an IPv4 match whose nw_proto is SCTP is rejected with BadField
\* when at least one of its two transport-port wildcard bits is clear; with
\* both bits set, and an all-ones metadata mask, it is accepted with both
\* ports wildcarded.  For a protocol without ports the bits are ignored,
\* and a metadata mask that is not all-ones is rejected with BadField.
C23_SctpRejectedWithPorts ==
    Decoded11 =>
        /\ (WireIpv4Sctp(mc.match) /\ ValidBut(mc.match)) =>
              IF BothPortsWildcarded(mc.match)
                 /\ mc.match.metadata_mask = UINT64_MAX
              THEN /\ mc.decoded.error = OK
                   /\ mc.decoded.rule.wc.tp_src_mask = 0
                   /\ mc.decoded.rule.wc.tp_dst_mask = 0
              ELSE mc.decoded.error = "OFPERR_OFPBMC_BAD_FIELD"
        /\ PortsIgnoredAndMetadataRejected(mc.match, mc.decoded)

\* An IPv4 match for SCTP to port 80, with nothing else wrong, was rejected
\* with BadField.
C23_Witness ==
    /\ Decoded11
    /\ WireIpv4Sctp(mc.match) /\ ValidBut(mc.match)
    /\ ~Has(mc.match.wildcards % 2^16, OFPFW11.TP_DST) /\ mc.match.tp_dst = 80
    /\ mc.match.metadata_mask = UINT64_MAX
    /\ mc.decoded.error = "OFPERR_OFPBMC_BAD_FIELD"


(***************************************************************************)
(* PACKET-IN MESSAGES                                                      *)
(*                                                                         *)
(* ofputil_encode_packet_in() writes an abstract packet-in in one of three *)
(* formats and ofputil_decode_packet_in() reads it back.  The bytes behind *)
(* the fixed part of a message are a sequence: MATCH_BYTE for each byte of *)
(* the match and of its padding, 0 for each byte of the two-byte padding,  *)
(* and the bytes of the packet.  What the NXM or OXM codec reads from the  *)
(* match bytes is the member 'match' of the message.                       *)
(***************************************************************************)

MIN(a, b) == IF a < b THEN a ELSE b

MATCH_BYTE == 0 - 1

Fill(n, byte) == [i \in 1..n |-> byte]

U64_ZERO == <<0, 0, 0, 0>>
U64And(x, y) == [i \in 1..4 |-> BitAnd(x[i], y[i])]

\* struct flow_metadata, and an all-zeros one.
flow_metadata(in_port, tun_id, tun_id_mask, regs, reg_masks) ==
    [in_port |-> in_port, tun_id |-> tun_id, tun_id_mask |-> tun_id_mask,
     regs |-> regs, reg_masks |-> reg_masks]

flow_metadata_zero ==
    flow_metadata(0, U64_ZERO, U64_ZERO, Fill(FLOW_N_REGS, U32_ZERO),
                  Fill(FLOW_N_REGS, U32_ZERO))

\* The rule that ofputil_encode_packet_in_tail builds from the metadata:
\* cls_rule_set_tun_id_masked, cls_rule_set_reg_masked and
\* cls_rule_set_in_port keep the bits of a value that its mask has.
MetadataRule(fmd) ==
    flow_metadata(fmd.in_port, U64And(fmd.tun_id, fmd.tun_id_mask),
                  fmd.tun_id_mask,
                  [i \in 1..FLOW_N_REGS |-> U32And(fmd.regs[i], fmd.reg_masks[i])],
                  fmd.reg_masks)

\* The bytes that nx_put_match writes for the rule, before padding: the
\* in_port (a 2-byte value in NXM, a 4-byte one in OXM), then the tunnel id
\* and each register unless wholly wildcarded, with the mask when it is
\* not all-ones.
NxmEntryLen(mask, zero, exact, width) ==
    IF mask = zero THEN 0
    ELSE IF mask = exact THEN 4 + width ELSE 4 + 2 * width

RECURSIVE RegsLen(_, _)
RegsLen(reg_masks, n) ==
    IF n = 0 THEN 0
    ELSE RegsLen(reg_masks, n - 1)
         + NxmEntryLen(reg_masks[n], U32_ZERO, UINT32_MAX, 4)

nx_put_match_len(oxm, rule) ==
    (IF oxm THEN 8 ELSE 6)
    + NxmEntryLen(rule.tun_id_mask, U64_ZERO, UINT64_MAX, 8)
    + RegsLen(rule.reg_masks, FLOW_N_REGS)

\* struct ofputil_packet_in
packet_in(packet, send_len, reason, buffer_id, total_len, fmd) ==
    [packet |-> packet, packet_len |-> Len(packet), send_len |-> send_len,
     reason |-> reason, table_id |-> 0, cookie |-> 0,
     buffer_id |-> buffer_id, total_len |-> total_len, fmd |-> fmd]

\* A packet-in message: the header, the members of the fixed part, the
\* match that the codec reads and the bytes behind the fixed part.
PacketInMsg(version, type, vendor, subtype, b, opi, match_len, match, tail) ==
    [version |-> version, type |-> type, stat |-> 0, vendor |-> vendor,
     subtype |-> subtype, size |-> b.size, length |-> b.length,
     buffer_id |-> opi.buffer_id, total_len |-> opi.total_len,
     reason |-> opi.reason, table_id |-> opi.table_id,
     cookie |-> opi.cookie, in_port |-> opi.fmd.in_port,
     match_len |-> match_len, match |-> match, tail |-> tail]

\* The bytes that ofputil_encode_packet_in_tail puts behind the header:
\* 'match_bytes' of match, two of padding and 'send_len' of packet.
PacketInTail(pin, match_bytes, send_len) ==
    Fill(match_bytes, MATCH_BYTE) \o <<0, 0>> \o SubSeq(pin.packet, 1, send_len)

\* The mutation: the whole packet is sent.
packet_in_send_whole(pin) == pin.packet_len

\* size_t send_len = MIN(pin->send_len, pin->packet_len);
PacketInSendLen(pin) == MIN(pin.send_len, pin.packet_len)

\* struct ofpbuf *ofputil_encode_packet_in(pin, protocol, packet_in_format),
\* the message in the buffer.  In the OpenFlow 1.0 format the members that
\* the message has no room for, and the in_port of the NXM and OXM formats,
\* which is in the match, are zero.
EncodedPacketIn(pin, protocol, packet_in_format) ==
    IF protocol = "OF12"
    THEN PacketInMsg(OFP_VERSION.OFP12, OFPT.PACKET_IN, 0, 0,
             ofputil_encode_packet_in(
                 nx_put_match_len(TRUE, MetadataRule(pin.fmd)),
                 PacketInSendLen(pin), protocol, packet_in_format),
             [pin EXCEPT !.cookie = 0, !.fmd.in_port = 0],
             0, MetadataRule(pin.fmd),
             PacketInTail(pin,
                 ROUND_UP(Ofp11MatchSize.ofp11_match_header
                          + nx_put_match_len(TRUE, MetadataRule(pin.fmd)), 8),
                 PacketInSendLen(pin)))
    ELSE IF packet_in_format = "NXPIF_OPENFLOW10"
    THEN PacketInMsg(OFP_VERSION.OFP10, OFPT.PACKET_IN, 0, 0,
             ofputil_encode_packet_in(0, PacketInSendLen(pin), protocol,
                                      packet_in_format),
             [pin EXCEPT !.cookie = 0, !.table_id = 0],
             0, flow_metadata_zero,
             SubSeq(pin.packet, 1, PacketInSendLen(pin)))
    ELSE PacketInMsg(OFP_VERSION.OFP10, OFPT.VENDOR, NX_VENDOR_ID,
             NXT.PACKET_IN,
             ofputil_encode_packet_in(
                 nx_put_match_len(FALSE, MetadataRule(pin.fmd)),
                 PacketInSendLen(pin), protocol, packet_in_format),
             [pin EXCEPT !.fmd.in_port = 0],
             nx_put_match_len(FALSE, MetadataRule(pin.fmd)),
             MetadataRule(pin.fmd),
             PacketInTail(pin,
                 ROUND_UP(nx_put_match_len(FALSE, MetadataRule(pin.fmd)), 8),
                 PacketInSendLen(pin)))

\* What a call of ofputil_decode_packet_in leaves: the value returned, or
\* Aborted, and *pin.
PacketInDecoded(ret, pin) == [ret |-> ret, pin |-> pin]

\* *pin after memset(pin, 0, sizeof *pin).
packet_in_zero == packet_in(<<>>, 0, 0, U32_ZERO, 0, flow_metadata_zero)

\* ofputil_decode_packet_in_finish(pin, rule, b), with the members that the
\* caller sets behind it; 'skip' bytes of the tail were pulled.
PacketInFinish(msg, skip, cookie) ==
    PacketInDecoded(OK,
        [packet_in(SubSeq(msg.tail, skip + 1, Len(msg.tail)), 0, msg.reason,
                   msg.buffer_id, msg.total_len, msg.match)
            EXCEPT !.table_id = msg.table_id, !.cookie = cookie])

\* The match of 'padded' bytes was pulled without error off the
\* 'size' bytes behind the fixed part: ofpbuf_try_pull(&b, 2) and the rest.
PacketInBehindMatch(msg, size, padded, cookie) ==
    IF size - padded < 2
    THEN PacketInDecoded(OFPERR.BAD_LEN, packet_in_zero)
    ELSE PacketInFinish(msg, padded + 2, cookie)

\* ofputil_decode_packet_in, OpenFlow 1.2
DecodePacketIn12(msg, pulled) ==
    IF pulled.error # OK THEN PacketInDecoded(pulled.error, packet_in_zero)
    ELSE PacketInBehindMatch(msg, msg.length - SizeOf.ofp11_packet_in,
             (msg.length - SizeOf.ofp11_packet_in) - pulled.size, 0)

\* ofputil_decode_packet_in, OpenFlow 1.0: the packet is what the length of
\* the header leaves behind the fixed part.
DecodePacketIn10(msg) ==
    PacketInDecoded(OK,
        [packet_in(SubSeq(msg.tail, 1, msg.length - SizeOf.ofp_packet_in_data),
                   0, msg.reason, msg.buffer_id, msg.total_len,
                   [flow_metadata_zero EXCEPT !.in_port = msg.in_port])
            EXCEPT !.packet_len = msg.length - SizeOf.ofp_packet_in_data])

\* ofputil_decode_packet_in, NXT_PACKET_IN; nx_pull_match_loose pulls the
\* match with its padding.
DecodePacketInNxm(msg, pulled) ==
    IF pulled.error # OK THEN PacketInDecoded(pulled.error, packet_in_zero)
    ELSE PacketInBehindMatch(msg, msg.length - SizeOf.nx_packet_in,
             (msg.length - SizeOf.nx_packet_in) - pulled.size, msg.cookie)

PacketInOfCode(msg, code) ==
    IF code = "OFPUTIL_OFPT_PACKET_IN" /\ msg.version = OFP_VERSION.OFP12
    THEN IF msg.length < SizeOf.ofp11_packet_in
         THEN PacketInDecoded(Aborted, packet_in_zero)
         ELSE DecodePacketIn12(msg,
                  ofputil_pull_ofp12_match(
                      MatchBuf(msg.length - SizeOf.ofp11_packet_in, OFPMT.OXM,
                               Ofp11MatchSize.ofp11_match_header
                               + nx_put_match_len(TRUE, msg.match),
                               ofp11_match_any),
                      FALSE, OK))
    ELSE IF code = "OFPUTIL_OFPT_PACKET_IN" /\ msg.version = OFP_VERSION.OFP10
    THEN DecodePacketIn10(msg)
    ELSE IF code = "OFPUTIL_NXT_PACKET_IN"
    THEN IF msg.length < SizeOf.nx_packet_in
         THEN PacketInDecoded(Aborted, packet_in_zero)
         ELSE DecodePacketInNxm(msg,
                  nx_pull_match(msg.length - SizeOf.nx_packet_in,
                                msg.match_len, 0, OK))
    ELSE PacketInDecoded(Aborted, packet_in_zero)

\* enum ofperr ofputil_decode_packet_in(pin, oh)
ofputil_decode_packet_in(msg) ==
    PacketInOfCode(msg,
                   ofputil_msg_type_code(ofputil_decode_msg_type(msg).typep))

(***************************************************************************)
(* Specification of packet-in messages: an abstract packet-in is drawn, is *)
(* encoded in one of the formats, and the message is decoded.              *)
(***************************************************************************)

MaxPacketLen == 20
PacketLens == {0, 5, MaxPacketLen}
SendLens == {0, 5, 12, 128}
PacketInPorts == {1, OFPP_MAX, UINT16_MAX - 1}
Metadata ==
    {flow_metadata_zero,
     [flow_metadata_zero EXCEPT !.tun_id = <<0, 0, 0, 5>>,
                                !.tun_id_mask = UINT64_MAX],
     [flow_metadata_zero EXCEPT !.tun_id = <<0, 0, 0, 5>>,
                                !.tun_id_mask = <<0, 0, 0, 4>>,
                                !.regs[1] = U32(0, 7),
                                !.reg_masks[1] = UINT32_MAX,
                                !.regs[3] = U32(7, 7),
                                !.reg_masks[3] = U32(0, 3)]}

\* pin: the packet-in drawn; msg: the message encoded, with the protocol and
\* the format it was encoded for; out: what decoding the message left.
PacketInRun(pin, protocol, packet_in_format, msg, out) ==
    [pin |-> pin, protocol |-> protocol,
     packet_in_format |-> packet_in_format, msg |-> msg, out |-> out]

InitPacketIn ==
    /\ \E packet_len \in PacketLens, send_len \in SendLens,
          in_port \in PacketInPorts, fmd \in Metadata,
          buffer_id \in {U32(0, 7), UINT32_MAX}, reason \in 0..1 :
          pki = PacketInRun(
                    packet_in([i \in 1..packet_len |-> i], send_len, reason,
                              buffer_id, 1500,
                              [fmd EXCEPT !.in_port = in_port]),
                    "none", "none", NotCalled, NotCalled)
    /\ oh = Idle /\ full = Idle /\ part = Idle /\ neg = Idle /\ up = Idle
    /\ fmu = Idle /\ nr = Idle /\ mc = Idle /\ wb = Idle /\ fsr = Idle
    /\ srp = Idle /\ sf = Idle /\ dec = Idle /\ xid = Idle /\ enc = Idle
    /\ pt = Idle /\ pull = Idle
    /\ fmr = Idle
    /\ pko = Idle
    /\ pd = Idle
    /\ pmr = Idle

EncodePacketInMsg ==
    /\ pki # Idle /\ pki.msg = NotCalled
    /\ \E protocol \in OFPUTIL_P_ANY, packet_in_format \in NXPIF :
          pki' = PacketInRun(pki.pin, protocol, packet_in_format,
                    EncodedPacketIn(pki.pin, protocol, packet_in_format),
                    NotCalled)
    /\ UNCHANGED notPacketInVars

DecodePacketIn ==
    /\ pki # Idle /\ pki.msg # NotCalled /\ pki.out = NotCalled
    /\ pki' = [pki EXCEPT !.out = ofputil_decode_packet_in(pki.msg)]
    /\ UNCHANGED notPacketInVars

NextPacketIn ==
    \/ EncodePacketInMsg
    \/ DecodePacketIn

SpecPacketIn == InitPacketIn /\ [][NextPacketIn]_vars

(***************************************************************************)
(* Properties of packet-in messages                                        *)
(***************************************************************************)

\* The format that a message was encoded in.
PacketInFormat(run) ==
    IF run.protocol = "OF12" THEN "OF12" ELSE run.packet_in_format

\* The bytes of the packet in a message, and the bytes between the fixed
\* part and them.
PayloadOf(run) ==
    SubSeq(run.msg.tail, Len(run.msg.tail) - PacketInSendLen(run.pin) + 1,
           Len(run.msg.tail))
BeforePayload(run) ==
    SubSeq(run.msg.tail, 1, Len(run.msg.tail) - PacketInSendLen(run.pin))

\* C24: the message encoded ends with the first min(send_len, packet_len)
\* bytes of the packet and, in the NXM and OpenFlow 1.2 formats, exactly
\* two bytes of padding stand between the match and them; the header
\* length is the size of the message.  Decoding the message succeeds and
\* returns a packet of min(send_len, packet_len) bytes with the in_port,
\* reason, buffer_id and total_len encoded, and from the OpenFlow 1.0
\* format an all-zeros tunnel id and registers, values and masks.
C24_PacketInRoundTrip ==
    /\ (pki # Idle /\ pki.msg # NotCalled) =>
          /\ Len(pki.msg.tail) >= PacketInSendLen(pki.pin)
          /\ PayloadOf(pki) = SubSeq(pki.pin.packet, 1,
                                     MIN(pki.pin.send_len, pki.pin.packet_len))
          /\ pki.msg.length = pki.msg.size
          /\ IF PacketInFormat(pki) = "NXPIF_OPENFLOW10"
             THEN /\ BeforePayload(pki) = <<>>
                  /\ pki.msg.size = SizeOf.ofp_packet_in_data + Len(pki.msg.tail)
             ELSE /\ Len(BeforePayload(pki)) >= 2
                  /\ \A i \in 1..Len(BeforePayload(pki)) :
                        BeforePayload(pki)[i] = MATCH_BYTE
                           <=> i <= Len(BeforePayload(pki)) - 2
    /\ (pki # Idle /\ pki.out # NotCalled) =>
          /\ pki.out.ret = OK
          /\ pki.out.pin.packet_len = MIN(pki.pin.send_len, pki.pin.packet_len)
          /\ pki.out.pin.packet = SubSeq(pki.pin.packet, 1, pki.out.pin.packet_len)
          /\ pki.out.pin.fmd.in_port = pki.pin.fmd.in_port
          /\ pki.out.pin.reason = pki.pin.reason
          /\ pki.out.pin.buffer_id = pki.pin.buffer_id
          /\ pki.out.pin.total_len = pki.pin.total_len
          /\ PacketInFormat(pki) = "NXPIF_OPENFLOW10" =>
                /\ pki.out.pin.fmd.tun_id = U64_ZERO
                /\ pki.out.pin.fmd.tun_id_mask = U64_ZERO
                /\ pki.out.pin.fmd.regs = flow_metadata_zero.regs
                /\ pki.out.pin.fmd.reg_masks = flow_metadata_zero.reg_masks

\* The longest packet, with a tunnel id and registers, was encoded in the
\* NXM format with 12 bytes of it, and decoded.
C24_Witness ==
    /\ pki # Idle /\ pki.out # NotCalled
    /\ PacketInFormat(pki) = "NXPIF_NXM"
    /\ pki.pin.packet_len = MaxPacketLen /\ pki.pin.send_len = 12
    /\ pki.pin.fmd.reg_masks[1] = UINT32_MAX
    /\ pki.out.pin.packet_len = 12


(***************************************************************************)
(* FLOW MOD MESSAGES                                                       *)
(*                                                                         *)
(* ofputil_encode_flow_mod() writes an abstract flow mod for a protocol    *)
(* and ofputil_decode_flow_mod() reads it back.  The bytes behind the      *)
(* fixed part of a message are a sequence: MATCH_BYTE for each byte of an  *)
(* NXM or OXM match and of its padding, ACTION_BYTE for each byte of the   *)
(* actions.                                                                *)
(***************************************************************************)

OFPFC == [ADD |-> 0, MODIFY |-> 1, MODIFY_STRICT |-> 2, DELETE |-> 3,
          DELETE_STRICT |-> 4]
OFPG11_ANY == UINT32_MAX
OFPG_ANY == UINT32_MAX
ACTION_BYTE == 0 - 2

\* The bytes that ofpbuf_new() leaves behind the fixed part of an NXM or an
\* OpenFlow 1.2 flow mod for the match and the actions.
NXM_TYPICAL_LEN == 64

\* struct ofputil_flow_mod; 'match_len' is the number of bytes that
\* nx_put_match writes for the fields of fm->cr.
flow_mod(command, table_id, cookie, cookie_mask, new_cookie, rest, match_len, ofpacts_len) ==
    [command |-> command, table_id |-> table_id, cookie |-> cookie,
     cookie_mask |-> cookie_mask, new_cookie |-> new_cookie,
     idle_timeout |-> rest.idle_timeout, hard_timeout |-> rest.hard_timeout,
     priority |-> rest.priority, buffer_id |-> rest.buffer_id,
     out_port |-> rest.out_port, flags |-> rest.flags,
     match_len |-> match_len, ofpacts_len |-> ofpacts_len]

\* The members of a flow mod message that are written one by one, here
\* all zero as put_openflow and put_nxmsg leave them.
FlowModRestZero ==
    [idle_timeout |-> 0, hard_timeout |-> 0, priority |-> 0,
     buffer_id |-> U32_ZERO, out_port |-> 0, flags |-> 0]

FlowModRest(fm) ==
    [idle_timeout |-> fm.idle_timeout, hard_timeout |-> fm.hard_timeout,
     priority |-> fm.priority, buffer_id |-> fm.buffer_id,
     out_port |-> fm.out_port, flags |-> fm.flags]

\* The mutation: the table id is never packed.
tid_command_unpacked(fm, protocol) == fm.command

\* static ovs_be16 ofputil_tid_command(fm, protocol)
ofputil_tid_command(fm, protocol) ==
    IF protocol \in OFPUTIL_P_TID
    THEN BitOr(BitAnd(fm.command, 255), (fm.table_id * 2^8) % 2^16)
    ELSE fm.command

\* The bytes that nx_put_match writes for the rule and for the cookie to
\* match on: no cookie entry when cookie_mask is zero, the cookie when it
\* is all-ones, else the cookie and the mask.
NxMatchLen(fm) ==
    fm.match_len + NxmEntryLen(fm.cookie_mask, U64_ZERO, UINT64_MAX, 8)

\* A flow mod message: the header, the members of the fixed part ('fixed',
\* 'rest' and match_len), the cookie that the match carries, and the bytes
\* behind the fixed part.
FlowModMsg(version, type, vendor, subtype, openflow_len, fixed, rest, match_len, nx_cookie, tail) ==
    [version |-> version, type |-> type, stat |-> 0, vendor |-> vendor,
     subtype |-> subtype,
     size |-> openflow_len + Len(tail), length |-> openflow_len + Len(tail),
     command |-> fixed.command, table_id |-> fixed.table_id,
     cookie |-> fixed.cookie, cookie_mask |-> fixed.cookie_mask,
     out_group |-> fixed.out_group,
     idle_timeout |-> rest.idle_timeout, hard_timeout |-> rest.hard_timeout,
     priority |-> rest.priority, buffer_id |-> rest.buffer_id,
     out_port |-> rest.out_port, flags |-> rest.flags,
     match_len |-> match_len, nx_cookie |-> nx_cookie, tail |-> tail]

FlowModFixed(command, table_id, cookie, cookie_mask, out_group) ==
    [command |-> command, table_id |-> table_id, cookie |-> cookie,
     cookie_mask |-> cookie_mask, out_group |-> out_group]

NxCookie(fm) ==
    [cookie |-> U64And(fm.cookie, fm.cookie_mask), mask |-> fm.cookie_mask]

\* ofputil_encode_flow_mod, case OFPUTIL_P_OF12; match_len is the length
\* that the envelope of the match declares.
EncodedFlowMod12(fm) ==
    FlowModMsg(OFP_VERSION.OFP12, OFPT11.FLOW_MOD, 0, 0,
        SizeOf.ofp11_flow_mod,
        FlowModFixed(fm.command % 2^8, fm.table_id, fm.new_cookie,
                     fm.cookie_mask, OFPG11_ANY),
        [FlowModRest(fm) EXCEPT !.out_port = ofputil_port_to_ofp11(fm.out_port)],
        Ofp11MatchSize.ofp11_match_header + NxMatchLen(fm), NxCookie(fm),
        Fill(ROUND_UP(Ofp11MatchSize.ofp11_match_header + NxMatchLen(fm), 8),
             MATCH_BYTE)
        \o Fill(fm.ofpacts_len, ACTION_BYTE))

\* ofputil_encode_flow_mod, cases OFPUTIL_P_OF10 and OFPUTIL_P_OF10_TID
EncodedFlowMod10(fm, protocol) ==
    FlowModMsg(OFP_VERSION.OFP10, OFPT10.FLOW_MOD, 0, 0,
        SizeOf.ofp10_flow_mod,
        FlowModFixed(ofputil_tid_command(fm, protocol), 0, fm.new_cookie,
                     U64_ZERO, 0),
        FlowModRest(fm), 0, NxCookie(flow_mod(0, 0, U64_ZERO, U64_ZERO,
                                              U64_ZERO, FlowModRestZero, 0, 0)),
        Fill(fm.ofpacts_len, ACTION_BYTE))

\* ofputil_encode_flow_mod, cases OFPUTIL_P_NXM and OFPUTIL_P_NXM_TID.  The
\* command and the cookie are written through 'nfm' before the match is
\* put, the other members and match_len behind it, through the same 'nfm'.
\* A match that does not fit the bytes allocated makes ofpbuf_put()
\* reallocate the buffer; 'moved' tells whether that moved it, and then
\* 'nfm' points to the memory freed and what is written through it does
\* not reach the message.
FlowModReallocates(fm) ==
    ROUND_UP(NxMatchLen(fm), 8) > NXM_TYPICAL_LEN + fm.ofpacts_len

EncodedFlowModNxm(fm, protocol, moved) ==
    FlowModMsg(OFP_VERSION.OFP10, OFPT.VENDOR, NX_VENDOR_ID, NXT.FLOW_MOD,
        SizeOf.nx_flow_mod,
        FlowModFixed(ofputil_tid_command(fm, protocol), 0, fm.new_cookie,
                     U64_ZERO, 0),
        IF moved THEN FlowModRestZero ELSE FlowModRest(fm),
        IF moved THEN 0 ELSE NxMatchLen(fm),
        NxCookie(fm),
        Fill(ROUND_UP(NxMatchLen(fm), 8), MATCH_BYTE)
        \o Fill(fm.ofpacts_len, ACTION_BYTE))

\* struct ofpbuf *ofputil_encode_flow_mod(fm, protocol), the message in
\* the buffer.
EncodedFlowMod(fm, protocol, moved) ==
    IF protocol = "OF12" THEN EncodedFlowMod12(fm)
    ELSE IF protocol \in OFPUTIL_P_OF10_ANY THEN EncodedFlowMod10(fm, protocol)
    ELSE EncodedFlowModNxm(fm, protocol, moved)

\* What a call of ofputil_decode_flow_mod leaves: the value returned, or
\* Aborted, and *fm.
FlowModDecoded(ret, fm) == [ret |-> ret, fm |-> fm]

flow_mod_zero ==
    flow_mod(0, 0, U64_ZERO, U64_ZERO, U64_ZERO, FlowModRestZero, 0, 0)

\* ofpacts_pull_openflow10 and ofpacts_pull_openflow11_instructions take
\* all the bytes left in the buffer for actions: bytes that are not those
\* of actions are an error.
OfpactsPull(bytes) ==
    IF \A i \in 1..Len(bytes) : bytes[i] = ACTION_BYTE THEN OK
    ELSE OFPERR_OFPBAC_BAD_LEN

\* ofputil_decode_flow_mod, the end of the two OpenFlow 1.0 cases.
FlowModTid(msg, protocol, fm) ==
    IF protocol \in OFPUTIL_P_TID
    THEN FlowModDecoded(OK, [fm EXCEPT !.command = BitAnd(msg.command, 255),
                                       !.table_id = msg.command \div 2^8])
    ELSE FlowModDecoded(OK, [fm EXCEPT !.command = msg.command,
                                       !.table_id = 255])

\* ofputil_decode_flow_mod, OFPUTIL_OFPT11_FLOW_MOD
DecodedFlowMod11(msg, pulled) ==
    IF pulled.error # OK THEN FlowModDecoded(pulled.error, flow_mod_zero)
    ELSE IF OfpactsPull(SubSeq(msg.tail, Len(msg.tail) - pulled.size + 1,
                               Len(msg.tail))) # OK
    THEN FlowModDecoded(OFPERR_OFPBAC_BAD_LEN, flow_mod_zero)
    ELSE IF ofputil_port_from_ofp11(msg.out_port).error # OK
    THEN FlowModDecoded(ofputil_port_from_ofp11(msg.out_port).error,
                        flow_mod_zero)
    ELSE IF msg.out_group # OFPG_ANY
    THEN FlowModDecoded("OFPERR_NXFMFC_GROUPS_NOT_SUPPORTED", flow_mod_zero)
    ELSE FlowModDecoded(OK,
            flow_mod(msg.command, msg.table_id,
                     IF msg.command = OFPFC.ADD THEN U64_ZERO ELSE msg.cookie,
                     IF msg.command = OFPFC.ADD THEN U64_ZERO
                     ELSE msg.cookie_mask,
                     IF msg.command = OFPFC.ADD THEN msg.cookie
                     ELSE UINT64_MAX,
                     [FlowModRest(msg) EXCEPT
                         !.out_port =
                             ofputil_port_from_ofp11(msg.out_port).ofp10_port],
                     0, pulled.size))

\* ofputil_decode_flow_mod, OFPUTIL_OFPT10_FLOW_MOD
DecodedFlowMod10(msg, protocol) ==
    IF OfpactsPull(msg.tail) # OK
    THEN FlowModDecoded(OFPERR_OFPBAC_BAD_LEN, flow_mod_zero)
    ELSE FlowModTid(msg, protocol,
            flow_mod(0, 0, U64_ZERO, U64_ZERO, msg.cookie, FlowModRest(msg),
                     0, Len(msg.tail)))

\* ofputil_decode_flow_mod, OFPUTIL_NXT_FLOW_MOD: the match that
\* nx_pull_match reads has the cookie of the message when it is read at
\* its whole length, and no cookie when it is read as empty.
DecodedFlowModNxm(msg, protocol, pulled) ==
    IF pulled.error # OK THEN FlowModDecoded(pulled.error, flow_mod_zero)
    ELSE IF OfpactsPull(SubSeq(msg.tail, Len(msg.tail) - pulled.size + 1,
                               Len(msg.tail))) # OK
    THEN FlowModDecoded(OFPERR_OFPBAC_BAD_LEN, flow_mod_zero)
    ELSE IF /\ BitAnd(msg.command, 255) = OFPFC.ADD
            /\ msg.match_len # 0 /\ msg.nx_cookie.mask # U64_ZERO
    THEN FlowModDecoded("OFPERR_NXBRC_NXM_INVALID", flow_mod_zero)
    ELSE FlowModTid(msg, protocol,
            flow_mod(0, 0,
                     IF msg.match_len = 0 THEN U64_ZERO ELSE msg.nx_cookie.cookie,
                     IF msg.match_len = 0 THEN U64_ZERO ELSE msg.nx_cookie.mask,
                     msg.cookie, FlowModRest(msg), 0, pulled.size))

DecodedFlowModOfCode(msg, protocol, code) ==
    IF code = "OFPUTIL_OFPT11_FLOW_MOD"
    THEN DecodedFlowMod11(msg,
             ofputil_pull_ofp11_match__(
                 MatchBuf(msg.length - SizeOf.ofp11_flow_mod, OFPMT.OXM,
                          msg.match_len, ofp11_match_any),
                 FALSE, msg.version, OK))
    ELSE IF code = "OFPUTIL_OFPT10_FLOW_MOD"
    THEN DecodedFlowMod10(msg, protocol)
    ELSE IF code = "OFPUTIL_NXT_FLOW_MOD"
    THEN DecodedFlowModNxm(msg, protocol,
             nx_pull_match(msg.length - SizeOf.nx_flow_mod, msg.match_len, 0,
                           OK))
    ELSE FlowModDecoded(Aborted, flow_mod_zero)

\* enum ofperr ofputil_decode_flow_mod(fm, oh, protocol, ofpacts), on a
\* message that ofputil_encode_flow_mod made.
DecodedFlowMod(msg, protocol) ==
    DecodedFlowModOfCode(msg, protocol,
        ofputil_msg_type_code(ofputil_decode_msg_type(msg).typep))


(***************************************************************************)
(* Specification of flow mod messages: an abstract flow mod is drawn, is   *)
(* encoded for a protocol, and the message is decoded with the same        *)
(* protocol.  A flow mod that adds a flow has no cookie to match on.       *)
(***************************************************************************)

FlowModCommands ==
    {OFPFC.ADD, OFPFC.MODIFY, OFPFC.DELETE, OFPFC.DELETE_STRICT, 255}
FlowModTables == {0, 1, 255}
FlowModCookies ==
    {<<U64_ZERO, U64_ZERO>>, <<<<0, 0, 0, 5>>, UINT64_MAX>>,
     <<<<0, 0, 0, 5>>, <<0, 0, 0, 4>>>>}
FlowModNewCookies == {<<0, 0, 0, 9>>, UINT64_MAX}
FlowModMatchLens == {0, 16, 72}
FlowModOfpactsLens == {0, 16}
FlowModOutPorts == {2, UINT16_MAX}

\* fm: the flow mod drawn; protocol: what it was encoded for, "none" before;
\* moved: whether encoding moved the buffer; msg: the message; out: what
\* decoding the message left.
FlowModTrip(fm, protocol, moved, msg, out) ==
    [fm |-> fm, protocol |-> protocol, moved |-> moved, msg |-> msg,
     out |-> out]

InitFlowMod ==
    /\ \E command \in FlowModCommands, table_id \in FlowModTables,
          cookie \in FlowModCookies, new_cookie \in FlowModNewCookies,
          match_len \in FlowModMatchLens, ofpacts_len \in FlowModOfpactsLens,
          out_port \in FlowModOutPorts :
          /\ command = OFPFC.ADD => cookie[2] = U64_ZERO
          /\ fmr = FlowModTrip(
                      flow_mod(command, table_id, cookie[1], cookie[2],
                               new_cookie,
                               [idle_timeout |-> 60, hard_timeout |-> 0,
                                priority |-> PRIORITY, buffer_id |-> UINT32_MAX,
                                out_port |-> out_port, flags |-> 1],
                               match_len, ofpacts_len),
                      "none", FALSE, NotCalled, NotCalled)
    /\ oh = Idle /\ full = Idle /\ part = Idle /\ neg = Idle /\ up = Idle
    /\ fmu = Idle /\ nr = Idle /\ mc = Idle /\ wb = Idle /\ fsr = Idle
    /\ srp = Idle /\ sf = Idle /\ dec = Idle /\ xid = Idle /\ enc = Idle
    /\ pt = Idle /\ pull = Idle /\ pki = Idle
    /\ pko = Idle
    /\ pd = Idle
    /\ pmr = Idle

EncodeFlowModMsg ==
    /\ fmr # Idle /\ fmr.msg = NotCalled
    /\ \E protocol \in OFPUTIL_P_ANY, moved \in BOOLEAN :
          /\ moved => protocol \in OFPUTIL_P_NXM_ANY /\ FlowModReallocates(fmr.fm)
          /\ fmr' = FlowModTrip(fmr.fm, protocol, moved,
                       EncodedFlowMod(fmr.fm, protocol, moved), NotCalled)
    /\ UNCHANGED notFlowModVars

DecodeFlowModMsg ==
    /\ fmr # Idle /\ fmr.msg # NotCalled /\ fmr.out = NotCalled
    /\ fmr' = [fmr EXCEPT !.out = DecodedFlowMod(fmr.msg, fmr.protocol)]
    /\ UNCHANGED notFlowModVars

NextFlowMod ==
    \/ EncodeFlowModMsg
    \/ DecodeFlowModMsg

SpecFlowMod == InitFlowMod /\ [][NextFlowMod]_vars

(***************************************************************************)
(* Properties of flow mod messages                                         *)
(***************************************************************************)

FlowModEncoded == fmr # Idle /\ fmr.msg # NotCalled
FlowModRead == fmr # Idle /\ fmr.out # NotCalled

\* The command field of the message is what the claim says for the
\* protocol: the command with the table id in the high byte, the command
\* alone, or, in OpenFlow 1.2, the command and the table id apart.
CommandPacked(run) ==
    IF run.protocol \in OFPUTIL_P_TID
    THEN /\ run.msg.command % 2^8 = run.fm.command
         /\ run.msg.command \div 2^8 = run.fm.table_id
    ELSE IF run.protocol = "OF12"
    THEN run.msg.command = run.fm.command /\ run.msg.table_id = run.fm.table_id
    ELSE run.msg.command = run.fm.command

\* C25: with the table-id extension the command field of the message has
\* the command in its low byte and the table id in its high byte, and
\* decoding the message with the same protocol returns the same command
\* and table id; without it the field is the command and the table id
\* decoded is 0xff; in OpenFlow 1.2 the two are fields of their own and
\* are returned unchanged.
C25_CommandAndTableIdRoundTrip ==
    /\ FlowModEncoded => CommandPacked(fmr)
    /\ FlowModRead =>
          /\ fmr.out.ret = OK
          /\ fmr.out.fm.command = fmr.fm.command
          /\ fmr.out.fm.table_id =
                IF fmr.protocol \in OFPUTIL_P_TID \cup {"OF12"}
                THEN fmr.fm.table_id ELSE 255


\* The same holds of every message that was encoded without the buffer
\* moving under 'nfm'.
CommandRoundTripUnlessMoved ==
    /\ FlowModEncoded => CommandPacked(fmr)
    /\ (FlowModRead /\ ~fmr.moved) =>
          /\ fmr.out.ret = OK
          /\ fmr.out.fm.command = fmr.fm.command
          /\ fmr.out.fm.table_id =
                IF fmr.protocol \in OFPUTIL_P_TID \cup {"OF12"}
                THEN fmr.fm.table_id ELSE 255


\* C27: decoding an OpenFlow 1.2 flow mod returns the cookie, the
\* cookie_mask and the new_cookie of the flow mod that was encoded, for a
\* flow mod that adds a flow (cookie and cookie_mask zero) and for one that
\* modifies or deletes flows alike.
C27_Of12CookiesRoundTrip ==
    (FlowModRead /\ fmr.protocol = "OF12") =>
        /\ fmr.out.ret = OK
        /\ fmr.out.fm.cookie = fmr.fm.cookie
        /\ fmr.out.fm.cookie_mask = fmr.fm.cookie_mask
        /\ fmr.out.fm.new_cookie = fmr.fm.new_cookie

\* The cookies of a flow mod that adds a flow do come back.
Of12CookiesOfAddRoundTrip ==
    (FlowModRead /\ fmr.protocol = "OF12" /\ fmr.fm.command = OFPFC.ADD) =>
        /\ fmr.out.ret = OK
        /\ fmr.out.fm.cookie = fmr.fm.cookie
        /\ fmr.out.fm.cookie_mask = fmr.fm.cookie_mask
        /\ fmr.out.fm.new_cookie = fmr.fm.new_cookie


(***************************************************************************)
(* PACKET-OUT MESSAGES                                                     *)
(*                                                                         *)
(* ofputil_encode_packet_out() writes an abstract packet-out and           *)
(* ofputil_decode_packet_out() reads it back.  The bytes behind the fixed  *)
(* part of a message are ACTION_BYTE for each byte of the actions, then    *)
(* the bytes of the packet.                                                *)
(***************************************************************************)

OFPP_CONTROLLER == UINT16_MAX - 2
OFPP_LOCAL == UINT16_MAX - 1
OFPP_NONE == UINT16_MAX

\* struct ofputil_packet_out
packet_out(packet, packet_len, buffer_id, in_port, ofpacts_len) ==
    [packet |-> packet, packet_len |-> packet_len, buffer_id |-> buffer_id,
     in_port |-> in_port, ofpacts_len |-> ofpacts_len]

\* A packet-out message; in_port is 32 bits wide from OpenFlow 1.1 on.
PacketOutMsg(version, type, openflow_len, buffer_id, in_port, actions_len, tail) ==
    [version |-> version, type |-> type, stat |-> 0, vendor |-> 0,
     subtype |-> 0, size |-> openflow_len + Len(tail),
     length |-> openflow_len + Len(tail), buffer_id |-> buffer_id,
     in_port |-> in_port, actions_len |-> actions_len, tail |-> tail]

\* What ofpacts_to_openflow10(po->ofpacts, msg) and then, for a packet that
\* is not buffered, ofpbuf_put(msg, po->packet, po->packet_len) append.
PacketOutTail(po) ==
    Fill(po.ofpacts_len, ACTION_BYTE)
    \o (IF po.buffer_id = UINT32_MAX THEN SubSeq(po.packet, 1, po.packet_len)
        ELSE <<>>)

\* struct ofpbuf *ofputil_encode_packet_out(po, protocol), the message in
\* the buffer.  actions_len is msg->size - sizeof *opo at the time it is
\* written, which is right behind put_openflow(sizeof *opo, ...), before
\* the actions are appended.
EncodedPacketOut(po, protocol) ==
    IF ofputil_protocol_to_ofp_version(protocol)
          \in {OFP_VERSION.OFP11, OFP_VERSION.OFP12}
    THEN PacketOutMsg(ofputil_protocol_to_ofp_version(protocol),
             OFPT11.PACKET_OUT, SizeOf.ofp11_packet_out, po.buffer_id,
             ofputil_port_to_ofp11(po.in_port),
             put_openflow_xid(SizeOf.ofp11_packet_out).size
                - SizeOf.ofp11_packet_out,
             PacketOutTail(po))
    ELSE PacketOutMsg(OFP_VERSION.OFP10, OFPT10.PACKET_OUT,
             SizeOf.ofp_packet_out, po.buffer_id, po.in_port,
             put_openflow_xid(SizeOf.ofp_packet_out).size
                - SizeOf.ofp_packet_out,
             PacketOutTail(po))

PacketOutDecoded(ret, po) == [ret |-> ret, po |-> po]

packet_out_zero == packet_out(<<>>, 0, U32_ZERO, 0, 0)

\* ofputil_decode_packet_out, behind the pull of the actions: the check of
\* the input port, and the packet, which is what is left in the buffer.
PacketOutBehindActions(msg, in_port) ==
    IF in_port >= OFPP_MAX
       /\ in_port \notin {OFPP_LOCAL, OFPP_NONE, OFPP_CONTROLLER}
    THEN PacketOutDecoded("OFPERR_NXBRC_BAD_IN_PORT", packet_out_zero)
    ELSE IF msg.buffer_id = UINT32_MAX
    THEN PacketOutDecoded(OK,
             packet_out(SubSeq(msg.tail, msg.actions_len + 1, Len(msg.tail)),
                        Len(msg.tail) - msg.actions_len, msg.buffer_id,
                        in_port, msg.actions_len))
    ELSE PacketOutDecoded(OK, packet_out(<<>>, 0, msg.buffer_id, in_port,
                                         msg.actions_len))

\* ofpacts_pull_openflow10(&b, actions_len, ofpacts) and
\* ofpacts_pull_openflow11_instructions: the first actions_len bytes of
\* what is behind the fixed part, which must be there and be actions.
PacketOutActions(msg) ==
    IF msg.actions_len > Len(msg.tail) THEN OFPERR_OFPBAC_BAD_LEN
    ELSE OfpactsPull(SubSeq(msg.tail, 1, msg.actions_len))

\* enum ofperr ofputil_decode_packet_out(po, oh, ofpacts), on a message
\* that ofputil_encode_packet_out made.
DecodedPacketOut(msg) ==
    IF msg.version \in {OFP_VERSION.OFP11, OFP_VERSION.OFP12}
    THEN IF ofputil_port_from_ofp11(msg.in_port).error # OK
         THEN PacketOutDecoded(ofputil_port_from_ofp11(msg.in_port).error,
                               packet_out_zero)
         ELSE IF PacketOutActions(msg) # OK
         THEN PacketOutDecoded(PacketOutActions(msg), packet_out_zero)
         ELSE PacketOutBehindActions(msg,
                  ofputil_port_from_ofp11(msg.in_port).ofp10_port)
    ELSE IF msg.version = OFP_VERSION.OFP10
    THEN IF PacketOutActions(msg) # OK
         THEN PacketOutDecoded(PacketOutActions(msg), packet_out_zero)
         ELSE PacketOutBehindActions(msg, msg.in_port)
    ELSE PacketOutDecoded(Aborted, packet_out_zero)

(***************************************************************************)
(* Specification of packet-out messages: an abstract packet-out is drawn,  *)
(* with a packet of its own or with the id of a buffered one, is encoded   *)
(* for a protocol, and the message is decoded.                             *)
(***************************************************************************)

PacketOutPorts == {1, OFPP_CONTROLLER, OFPP_LOCAL, OFPP_NONE}
PacketOutOfpactsLens == {0, 8, 16}

PacketOutTrip(po, protocol, msg, out) ==
    [po |-> po, protocol |-> protocol, msg |-> msg, out |-> out]

InitPacketOut ==
    /\ \E packet_len \in PacketLens, in_port \in PacketOutPorts,
          buffer_id \in {U32(0, 7), UINT32_MAX},
          ofpacts_len \in PacketOutOfpactsLens :
          pko = PacketOutTrip(
                    packet_out([i \in 1..packet_len |-> i], packet_len,
                               buffer_id, in_port, ofpacts_len),
                    "none", NotCalled, NotCalled)
    /\ oh = Idle /\ full = Idle /\ part = Idle /\ neg = Idle /\ up = Idle
    /\ fmu = Idle /\ nr = Idle /\ mc = Idle /\ wb = Idle /\ fsr = Idle
    /\ srp = Idle /\ sf = Idle /\ dec = Idle /\ xid = Idle /\ enc = Idle
    /\ pt = Idle /\ pull = Idle /\ pki = Idle /\ fmr = Idle
    /\ pd = Idle
    /\ pmr = Idle

EncodePacketOutMsg ==
    /\ pko # Idle /\ pko.msg = NotCalled
    /\ \E protocol \in OFPUTIL_P_ANY :
          pko' = PacketOutTrip(pko.po, protocol,
                               EncodedPacketOut(pko.po, protocol), NotCalled)
    /\ UNCHANGED notPacketOutVars

DecodePacketOutMsg ==
    /\ pko # Idle /\ pko.msg # NotCalled /\ pko.out = NotCalled
    /\ pko' = [pko EXCEPT !.out = DecodedPacketOut(pko.msg)]
    /\ UNCHANGED notPacketOutVars

NextPacketOut ==
    \/ EncodePacketOutMsg
    \/ DecodePacketOutMsg

SpecPacketOut == InitPacketOut /\ [][NextPacketOut]_vars

(***************************************************************************)
(* Properties of packet-out messages                                       *)
(***************************************************************************)

\* The action bytes that stand behind the fixed part of a message.
RECURSIVE ActionBytes(_)
ActionBytes(bytes) ==
    IF bytes = <<>> \/ Head(bytes) # ACTION_BYTE THEN 0
    ELSE 1 + ActionBytes(Tail(bytes))

\* C26: the actions_len of the message encoded is the number of action
\* bytes behind the fixed part, and decoding the message recovers the same
\* action list, and the same packet bytes when buffer_id is UINT32_MAX, a
\* packet of length 0 otherwise, for OpenFlow 1.0 and 1.2 alike.
C26_PacketOutRoundTrip ==
    /\ (pko # Idle /\ pko.msg # NotCalled) =>
          /\ pko.msg.actions_len = ActionBytes(pko.msg.tail)
          /\ pko.msg.actions_len = pko.po.ofpacts_len
    /\ (pko # Idle /\ pko.out # NotCalled) =>
          /\ pko.out.ret = OK
          /\ pko.out.po.ofpacts_len = pko.po.ofpacts_len
          /\ IF pko.po.buffer_id = UINT32_MAX
             THEN /\ pko.out.po.packet = pko.po.packet
                  /\ pko.out.po.packet_len = pko.po.packet_len
             ELSE /\ pko.out.po.packet = <<>>
                  /\ pko.out.po.packet_len = 0

\* A packet-out without actions does round-trip.
PacketOutWithoutActionsRoundTrip ==
    (pko # Idle /\ pko.out # NotCalled /\ pko.po.ofpacts_len = 0) =>
        /\ pko.msg.actions_len = 0
        /\ pko.out.ret = OK
        /\ pko.out.po.in_port = pko.po.in_port
        /\ pko.out.po.buffer_id = pko.po.buffer_id
        /\ IF pko.po.buffer_id = UINT32_MAX
           THEN pko.out.po.packet = pko.po.packet
           ELSE pko.out.po.packet_len = 0


(***************************************************************************)
(* PORT DESCRIPTIONS OF OPENFLOW 1.1 AND 1.2                               *)
(*                                                                         *)
(* ofputil_encode_ofp11_port() writes a struct ofputil_phy_port as a       *)
(* struct ofp11_port and ofputil_decode_ofp11_port() reads one.  The       *)
(* hardware address and the name are copied both ways and are left out.    *)
(***************************************************************************)

\* enum ofp11_port_config: PORT_DOWN, NO_RECV, NO_FWD, NO_PACKET_IN, and
\* enum ofp11_port_state: LINK_DOWN, BLOCKED, LIVE.
OFPPC11 == [PORT_DOWN |-> 1, NO_RECV |-> 4, NO_FWD |-> 32, NO_PACKET_IN |-> 64]
OFPPS11 == [LINK_DOWN |-> 1, BLOCKED |-> 2, LIVE |-> 4]
OFPPC11_ALL ==
    OFPPC11.PORT_DOWN + OFPPC11.NO_RECV + OFPPC11.NO_FWD + OFPPC11.NO_PACKET_IN
OFPPS11_ALL == OFPPS11.LINK_DOWN + OFPPS11.BLOCKED + OFPPS11.LIVE

\* struct ofputil_phy_port, and struct ofp11_port alike
ofputil_phy_port(port_no, config, state, curr, advertised, supported, peer, curr_speed, max_speed) ==
    [port_no |-> port_no, config |-> config, state |-> state, curr |-> curr,
     advertised |-> advertised, supported |-> supported, peer |-> peer,
     curr_speed |-> curr_speed, max_speed |-> max_speed]

phy_port_zero == ofputil_phy_port(0, 0, 0, 0, 0, 0, 0, 0, 0)

\* netdev_port_features_to_ofp11 and netdev_port_features_from_ofp11:
\* features & 0xffff
netdev_port_features_ofp11(features) == features % (UINT16_MAX + 1)

\* void ofputil_encode_ofp11_port(pp, op)
ofputil_encode_ofp11_port(pp) ==
    ofputil_phy_port(ofputil_port_to_ofp11(pp.port_no),
                     BitAnd(pp.config, OFPPC11_ALL),
                     BitAnd(pp.state, OFPPS11_ALL),
                     netdev_port_features_ofp11(pp.curr),
                     netdev_port_features_ofp11(pp.advertised),
                     netdev_port_features_ofp11(pp.supported),
                     netdev_port_features_ofp11(pp.peer),
                     pp.curr_speed, pp.max_speed)

PortDecoded(error, pp) == [error |-> error, pp |-> pp]

\* enum ofperr ofputil_decode_ofp11_port(pp, op): the state is masked with
\* OFPPC11_ALL, as the config is.
ofputil_decode_ofp11_port(op) ==
    IF ofputil_port_from_ofp11(op.port_no).error # OK
    THEN PortDecoded(ofputil_port_from_ofp11(op.port_no).error, phy_port_zero)
    ELSE PortDecoded(OK,
             ofputil_phy_port(ofputil_port_from_ofp11(op.port_no).ofp10_port,
                              BitAnd(op.config, OFPPC11_ALL),
                              BitAnd(op.state, OFPPC11_ALL),
                              netdev_port_features_ofp11(op.curr),
                              netdev_port_features_ofp11(op.advertised),
                              netdev_port_features_ofp11(op.supported),
                              netdev_port_features_ofp11(op.peer),
                              op.curr_speed, op.max_speed))

(***************************************************************************)
(* Specification of port descriptions: a port is drawn, with any state     *)
(* bits and some config bits, it is encoded, and what was encoded is       *)
(* decoded.                                                                *)
(***************************************************************************)

\* State bits up to the one above OFPPS11_ALL.
MaxPortState == 15

PortDescPorts == {1, OFPP_MAX - 1, OFPP_LOCAL}
PortDescConfigs ==
    {0, OFPPC11.NO_RECV, OFPPC11_ALL, OFPPC11_ALL + 2, OFPPC11.NO_FWD + 8}
PortDescFeatures == {0, 2048 + 32, UINT16_MAX + 1 + 64}

PortDescTrip(pp, op, out) == [pp |-> pp, op |-> op, out |-> out]

InitPortDesc ==
    /\ \E port_no \in PortDescPorts, config \in PortDescConfigs,
          state \in 0..MaxPortState, features \in PortDescFeatures :
          pd = PortDescTrip(
                   ofputil_phy_port(port_no, config, state, features, 0,
                                    features, 0, 1000, 10000),
                   NotCalled, NotCalled)
    /\ oh = Idle /\ full = Idle /\ part = Idle /\ neg = Idle /\ up = Idle
    /\ fmu = Idle /\ nr = Idle /\ mc = Idle /\ wb = Idle /\ fsr = Idle
    /\ srp = Idle /\ sf = Idle /\ dec = Idle /\ xid = Idle /\ enc = Idle
    /\ pt = Idle /\ pull = Idle /\ pki = Idle /\ fmr = Idle /\ pko = Idle
    /\ pmr = Idle

EncodeOfp11Port ==
    /\ pd # Idle /\ pd.op = NotCalled
    /\ pd' = [pd EXCEPT !.op = ofputil_encode_ofp11_port(pd.pp)]
    /\ UNCHANGED notPortDescVars

DecodeOfp11Port ==
    /\ pd # Idle /\ pd.op # NotCalled /\ pd.out = NotCalled
    /\ pd' = [pd EXCEPT !.out = ofputil_decode_ofp11_port(pd.op)]
    /\ UNCHANGED notPortDescVars

NextPortDesc ==
    \/ EncodeOfp11Port
    \/ DecodeOfp11Port

SpecPortDesc == InitPortDesc /\ [][NextPortDesc]_vars

(***************************************************************************)
(* Properties of port descriptions                                         *)
(***************************************************************************)

\* C29: decoding what ofputil_encode_ofp11_port made preserves every state
\* bit in OFPPS11_ALL and every config bit in OFPPC11_ALL: the decoder
\* masks the state with the state mask and the config with the config mask,
\* as the encoder does.
C29_Ofp11PortRoundTrip ==
    (pd # Idle /\ pd.out # NotCalled) =>
        /\ pd.out.error = OK
        /\ pd.out.pp.state = BitAnd(pd.pp.state, OFPPS11_ALL)
        /\ pd.out.pp.config = BitAnd(pd.pp.config, OFPPC11_ALL)

\* The config bits, the port number, the features and the speeds do
\* round-trip, and so do the state bits that are config bits as well.
Ofp11PortConfigRoundTrip ==
    (pd # Idle /\ pd.out # NotCalled) =>
        /\ pd.out.error = OK
        /\ pd.out.pp.port_no = pd.pp.port_no
        /\ pd.out.pp.config = BitAnd(pd.pp.config, OFPPC11_ALL)
        /\ pd.out.pp.state
              = BitAnd(BitAnd(pd.pp.state, OFPPS11_ALL), OFPPC11_ALL)
        /\ pd.out.pp.curr = netdev_port_features_ofp11(pd.pp.curr)
        /\ pd.out.pp.curr_speed = pd.pp.curr_speed


(***************************************************************************)
(* PORT MOD MESSAGES                                                       *)
(*                                                                         *)
(* ofputil_encode_port_mod() writes an abstract port mod as a message and  *)
(* ofputil_decode_port_mod() reads one.  The hardware address is copied    *)
(* both ways and is left out.                                              *)
(***************************************************************************)

\* OFPPC10_ALL: the config bits of OpenFlow 1.1 and NO_STP, NO_RECV_STP and
\* NO_FLOOD.
OFPPC10_ALL == OFPPC11_ALL + 2 + 8 + 16

\* netdev_port_features_to_ofp10:
\* (features & 0x7f) | ((features & 0xf800) >> 4)
netdev_port_features_to_ofp10(features) ==
    (features % 128) + ((features \div 2048) % 32) * 128

\* netdev_port_features_from_ofp10: (ofp10 & 0x7f) | ((ofp10 & 0xf80) << 4)
netdev_port_features_from_ofp10(ofp10) ==
    (ofp10 % 128) + ((ofp10 \div 128) % 32) * 2048

\* struct ofputil_port_mod
port_mod(port_no, config, mask, advertise) ==
    [port_no |-> port_no, config |-> config, mask |-> mask,
     advertise |-> advertise]

\* A port mod message: port_no is 16 bits wide in OpenFlow 1.0 and 32 bits
\* wide from OpenFlow 1.1 on.
PortModMsg(version, type, length, port_no, config, mask, advertise) ==
    [version |-> version, type |-> type, length |-> length,
     port_no |-> port_no, config |-> config, mask |-> mask,
     advertise |-> advertise]

\* struct ofpbuf *ofputil_encode_port_mod(pm, protocol), the message in the
\* buffer.  From OpenFlow 1.1 on the port number is htonl(pm->port_no).
EncodedPortMod(pm, protocol) ==
    IF ofputil_protocol_to_ofp_version(protocol) = OFP_VERSION.OFP10
    THEN PortModMsg(OFP_VERSION.OFP10, OFPT10.PORT_MOD,
                    SizeOf.ofp10_port_mod, pm.port_no,
                    BitAnd(pm.config, OFPPC10_ALL),
                    BitAnd(pm.mask, OFPPC10_ALL),
                    netdev_port_features_to_ofp10(pm.advertise))
    ELSE IF ofputil_protocol_to_ofp_version(protocol)
               \in {OFP_VERSION.OFP11, OFP_VERSION.OFP12}
    THEN PortModMsg(ofputil_protocol_to_ofp_version(protocol),
                    OFPT11.PORT_MOD, SizeOf.ofp11_port_mod,
                    U32(0, pm.port_no),
                    BitAnd(pm.config, OFPPC11_ALL),
                    BitAnd(pm.mask, OFPPC11_ALL),
                    netdev_port_features_ofp11(pm.advertise))
    ELSE Aborted

PortModDecoded(error, pm) == [error |-> error, pm |-> pm]

\* What ofputil_decode_port_mod leaves of *pm when it returns an error
\* before it stored anything.
port_mod_unset == port_mod(0, 0, 0, 0)

\* ofputil_decode_port_mod, the end: "pm->config &= pm->mask; return 0;"
PortModMasked(pm) ==
    PortModDecoded(OK, [pm EXCEPT !.config = BitAnd(pm.config, pm.mask)])

\* enum ofperr ofputil_decode_port_mod(oh, pm)
DecodedPortMod(msg) ==
    IF msg.version = OFP_VERSION.OFP10
    THEN IF msg.length # SizeOf.ofp10_port_mod
         THEN PortModDecoded("OFPERR_OFPBRC_BAD_LEN", port_mod_unset)
         ELSE PortModMasked(
                  port_mod(msg.port_no, BitAnd(msg.config, OFPPC10_ALL),
                           BitAnd(msg.mask, OFPPC10_ALL),
                           netdev_port_features_from_ofp10(msg.advertise)))
    ELSE IF msg.version \in {OFP_VERSION.OFP11, OFP_VERSION.OFP12}
    THEN IF msg.length # SizeOf.ofp11_port_mod
         THEN PortModDecoded("OFPERR_OFPBRC_BAD_LEN", port_mod_unset)
         ELSE IF ofputil_port_from_ofp11(msg.port_no).error # OK
         THEN PortModDecoded(ofputil_port_from_ofp11(msg.port_no).error,
                             port_mod_unset)
         ELSE PortModMasked(
                  port_mod(ofputil_port_from_ofp11(msg.port_no).ofp10_port,
                           BitAnd(msg.config, OFPPC11_ALL),
                           BitAnd(msg.mask, OFPPC11_ALL),
                           netdev_port_features_ofp11(msg.advertise)))
    ELSE PortModDecoded("OFPERR_OFPBRC_BAD_VERSION", port_mod_unset)

(***************************************************************************)
(* Specification of port mod messages: a port mod is drawn, for a port     *)
(* below OFPP_MAX or a reserved one, it is encoded for a protocol, and the *)
(* message is decoded.                                                     *)
(***************************************************************************)

PortModPorts ==
    {0, 1, OFPP_MAX - 1, OFPP_MAX, OFPP_CONTROLLER, OFPP_LOCAL, OFPP_NONE}
PortModConfigs == {0, OFPPC11.PORT_DOWN, OFPPC11.NO_FWD + OFPPC11.NO_RECV,
                   OFPPC11_ALL}
PortModMasks == {0, OFPPC11.PORT_DOWN, OFPPC11.NO_FWD, OFPPC11_ALL}
PortModFeatures == {0, 2048 + 32}

PortModTrip(pm, protocol, msg, out) ==
    [pm |-> pm, protocol |-> protocol, msg |-> msg, out |-> out]

InitPortMod ==
    /\ \E port_no \in PortModPorts, config \in PortModConfigs,
          mask \in PortModMasks, advertise \in PortModFeatures :
          pmr = PortModTrip(port_mod(port_no, config, mask, advertise),
                            "none", NotCalled, NotCalled)
    /\ oh = Idle /\ full = Idle /\ part = Idle /\ neg = Idle /\ up = Idle
    /\ fmu = Idle /\ nr = Idle /\ mc = Idle /\ wb = Idle /\ fsr = Idle
    /\ srp = Idle /\ sf = Idle /\ dec = Idle /\ xid = Idle /\ enc = Idle
    /\ pt = Idle /\ pull = Idle /\ pki = Idle /\ fmr = Idle /\ pko = Idle
    /\ pd = Idle

EncodePortModMsg ==
    /\ pmr # Idle /\ pmr.msg = NotCalled
    /\ \E protocol \in OFPUTIL_P_ANY :
          pmr' = PortModTrip(pmr.pm, protocol,
                             EncodedPortMod(pmr.pm, protocol), NotCalled)
    /\ UNCHANGED notPortModVars

DecodePortModMsg ==
    /\ pmr # Idle /\ pmr.msg # NotCalled /\ pmr.out = NotCalled
    /\ pmr' = [pmr EXCEPT !.out = DecodedPortMod(pmr.msg)]
    /\ UNCHANGED notPortModVars

NextPortMod ==
    \/ EncodePortModMsg
    \/ DecodePortModMsg

SpecPortMod == InitPortMod /\ [][NextPortMod]_vars

(***************************************************************************)
(* Properties of port mod messages                                         *)
(***************************************************************************)

\* C30: for every 16-bit port number, the reserved ports from OFPP_MAX on
\* included, decoding the port mod that was encoded succeeds and returns
\* the same port number, for OpenFlow 1.0 and for OpenFlow 1.2, and the
\* config decoded is config & mask.
C30_PortModRoundTrip ==
    (pmr # Idle /\ pmr.out # NotCalled) =>
        /\ pmr.out.error = OK
        /\ pmr.out.pm.port_no = pmr.pm.port_no
        /\ pmr.out.pm.config = BitAnd(pmr.pm.config, pmr.pm.mask)

\* It is so in OpenFlow 1.0, and from OpenFlow 1.1 on for the ports below
\* OFPP_MAX.
PortModRoundTripBelowMax ==
    (/\ pmr # Idle /\ pmr.out # NotCalled
     /\ \/ pmr.msg.version = OFP_VERSION.OFP10
        \/ pmr.pm.port_no < OFPP_MAX) =>
        /\ pmr.out.error = OK
        /\ pmr.out.pm.port_no = pmr.pm.port_no
        /\ pmr.out.pm.config = BitAnd(pmr.pm.config, pmr.pm.mask)
        /\ pmr.out.pm.mask = pmr.pm.mask
        /\ pmr.out.pm.advertise = pmr.pm.advertise

=============================================================================
